---------------------------- MODULE Spec2Model ----------------------------
(***************************************************************************)
(* gosub_styling: the CSS value-definition-syntax compiler (syntax.rs) and *)
(* the value matcher (syntax_matcher.rs).                                  *)
(*                                                                         *)
(* A grammar source is a sequence of lexemes (the pieces the nom parsers   *)
(* of syntax.rs consume: words, " ", "|", "||", "&&", "[", "]", the        *)
(* multiplier signs, digits, ...).  A CssValue is a record [t, s, n]: the  *)
(* variant tag, its string payload and its numeric payload (for a          *)
(* Function value n is the number of arguments, the only thing the matcher *)
(* looks at).  A SyntaxComponent is a record [type, name, multiplier,      *)
(* components, combinator].                                                *)
(***************************************************************************)
EXTENDS Integers, Sequences, FiniteSets, TLC

VARIABLES source, input, tree, res, accepted, pc,
          call_component, call_cnt, fulfillment, gid,
          definitions, entries, added, frame

vars ==
    <<source, input, tree, res, accepted, pc, call_component, call_cnt, fulfillment,
      gid, definitions, entries, added, frame>>

registryVars == <<definitions, entries, added>>

-----------------------------------------------------------------------------
(* CssValue *)

CssString(s) == [t |-> "String", s |-> s, n |-> 0]
CssNone == [t |-> "None", s |-> "", n |-> 0]
CssComma == [t |-> "Comma", s |-> "", n |-> 0]
CssZero == [t |-> "Zero", s |-> "", n |-> 0]
CssInherit == [t |-> "Inherit", s |-> "", n |-> 0]
CssInitial == [t |-> "Initial", s |-> "", n |-> 0]
CssFunction(name, nargs) == [t |-> "Function", s |-> name, n |-> nargs]
\* CssValue::Number(f32) and CssValue::Unit(f32, String), over whole numbers
CssNumber(n) == [t |-> "Number", s |-> "", n |-> n]
CssUnit(n, u) == [t |-> "Unit", s |-> u, n |-> n]

\* u8::to_ascii_lowercase over the words of the model
to_ascii_lowercase(s) ==
    CASE s = "AUTO" -> "auto"
      [] s = "Auto" -> "auto"
      [] s = "NONE" -> "none"
      [] s = "None" -> "none"
      [] s = "BLOCK" -> "block"
      [] s = "FOO" -> "foo"
      [] s = "Foo" -> "foo"
      [] s = "BAR" -> "bar"
      [] s = "BAZ" -> "baz"
      [] s = "INHERIT" -> "inherit"
      [] s = "INITIAL" -> "initial"
      [] s = "UNSET" -> "unset"
      [] OTHER -> s

eq_ignore_ascii_case(a, b) == to_ascii_lowercase(a) = to_ascii_lowercase(b)

-----------------------------------------------------------------------------
(* SyntaxComponentMultiplier, SyntaxComponent *)

Multiplier(kind, min, max) == [kind |-> kind, min |-> min, max |-> max]
Once == Multiplier("Once", 0, 0)
ZeroOrMore == Multiplier("ZeroOrMore", 0, 0)
OneOrMore == Multiplier("OneOrMore", 0, 0)
Optional == Multiplier("Optional", 0, 0)
AtLeastOneValue == Multiplier("AtLeastOneValue", 0, 0)
Between(min, max) == Multiplier("Between", min, max)
CommaSeparatedRepeat(min, max) == Multiplier("CommaSeparatedRepeat", min, max)

Leaf(type, name) ==
    [type |-> type, name |-> name, multiplier |-> Once,
     components |-> <<>>, combinator |-> "None"]

Group(components, combinator) ==
    [type |-> "Group", name |-> "", multiplier |-> Once,
     components |-> components, combinator |-> combinator]

\* NumberOrInfinity: None, FiniteI64(value), Infinity, NegativeInfinity
NumberOrInfinity(kind, value) == [kind |-> kind, value |-> value]

RangeType(min, max) == [min |-> min, max |-> max]

\* RangeType::empty()
RangeType_empty == RangeType(NumberOrInfinity("None", 0), NumberOrInfinity("None", 0))

\* SyntaxComponent::Definition{datatype, quoted, range, multiplier}
Definition(datatype, quoted, range) ==
    [type |-> "Definition", name |-> datatype, multiplier |-> Once,
     components |-> <<>>, combinator |-> "None", quoted |-> quoted, range |-> range]

\* Option<f32>
NoBound == [some |-> FALSE, value |-> 0]
Bound(n) == [some |-> TRUE, value |-> n]

unwrap_or(opt, default) == IF opt.some THEN opt.value ELSE default

\* SyntaxComponent::Unit{from, to, unit, multiplier}
Unit(from, to, unit) ==
    [type |-> "Unit", name |-> "", multiplier |-> Once, components |-> <<>>,
     combinator |-> "None", from |-> from, to |-> to, unit |-> unit]

\* SyntaxComponent::Function{name, arguments, multiplier}: the arguments are
\* held in the components field
Function(name, arguments) ==
    [type |-> "Function", name |-> name, multiplier |-> Once,
     components |-> arguments, combinator |-> "None"]

is_group(component) == component.type = "Group"

update_multiplier(component, new_multiplier) ==
    [component EXCEPT !.multiplier = new_multiplier]

\* the multipliers the matcher iterates over: the one multiplier a component owns
get_multipliers(component) == <<component.multiplier>>

-----------------------------------------------------------------------------
(* MatchResult; panicked marks a call that unwound with a panic *)

MatchResult(remainder, matched, matched_values) ==
    [remainder |-> remainder, matched |-> matched,
     matched_values |-> matched_values, panicked |-> FALSE]

Panicked(in) ==
    [remainder |-> in, matched |-> FALSE, matched_values |-> <<>>, panicked |-> TRUE]

no_match(in) == MatchResult(in, FALSE, <<>>)

\* the locals of the multiplier loop of match_component_inner: input,
\* matched_values and multiplier_count
Frame(in, matched_values, multiplier_count) ==
    [input |-> in, matched_values |-> matched_values,
     multiplier_count |-> multiplier_count]

\* no call of match_component_inner is under way
NoFrame == Frame(<<>>, <<>>, 0)

first_match_mut_rotate(in) == MatchResult(Tail(in) \o <<Head(in)>>, TRUE, <<Head(in)>>)

first_match(in) == MatchResult(Tail(in), TRUE, <<Head(in)>>)

-----------------------------------------------------------------------------
(* Fulfillment *)

multiplier_fulfilled_mut_optional(component, cnt) ==
    LET binding == get_multipliers(component)
        filtered == SelectSeq(binding, LAMBDA m :
                        m.kind \notin {"AtLeastOneValue", "CommaSeparatedRepeat"})
        filtered_multipliers == IF filtered = <<>> THEN <<Once>> ELSE filtered
        first == Head(filtered_multipliers)
    IN  CASE first.kind = "Once" ->
                (IF cnt = 0 THEN "NotYetFulfilled"
                 ELSE IF cnt = 1 THEN "Fulfilled" ELSE "NotFulfilled")
          [] first.kind = "ZeroOrMore" -> "FulfilledButMoreAllowed"
          [] first.kind = "OneOrMore" ->
                (IF cnt = 0 THEN "NotYetFulfilled" ELSE "FulfilledButMoreAllowed")
          [] first.kind = "Optional" ->
                (IF cnt = 0 THEN "NotYetFulfilled"
                 ELSE IF cnt = 1 THEN "Fulfilled" ELSE "NotFulfilled")
          [] first.kind = "Between" ->
                (IF cnt < first.min THEN "NotYetFulfilled"
                 ELSE IF cnt >= first.min /\ cnt <= first.max
                      THEN "FulfilledButMoreAllowed"
                      ELSE "NotFulfilled")
          [] OTHER -> "NotFulfilled"

multiplier_fulfilled_mut_between(component, cnt) ==
    LET binding == get_multipliers(component)
        filtered == SelectSeq(binding, LAMBDA m :
                        m.kind \notin {"AtLeastOneValue", "CommaSeparatedRepeat"})
        filtered_multipliers == IF filtered = <<>> THEN <<Once>> ELSE filtered
        first == Head(filtered_multipliers)
    IN  CASE first.kind = "Once" ->
                (IF cnt = 0 THEN "NotYetFulfilled"
                 ELSE IF cnt = 1 THEN "Fulfilled" ELSE "NotFulfilled")
          [] first.kind = "ZeroOrMore" -> "FulfilledButMoreAllowed"
          [] first.kind = "OneOrMore" ->
                (IF cnt = 0 THEN "NotYetFulfilled" ELSE "FulfilledButMoreAllowed")
          [] first.kind = "Optional" ->
                (IF cnt = 0 THEN "FulfilledButMoreAllowed"
                 ELSE IF cnt = 1 THEN "Fulfilled" ELSE "NotFulfilled")
          [] first.kind = "Between" ->
                (IF cnt < first.min THEN "NotYetFulfilled"
                 ELSE IF cnt >= first.min /\ cnt < first.max
                      THEN "FulfilledButMoreAllowed"
                      ELSE "NotFulfilled")
          [] OTHER -> "NotFulfilled"

multiplier_fulfilled(component, cnt) ==
    LET binding == get_multipliers(component)
        filtered == SelectSeq(binding, LAMBDA m :
                        m.kind \notin {"AtLeastOneValue", "CommaSeparatedRepeat"})
        filtered_multipliers == IF filtered = <<>> THEN <<Once>> ELSE filtered
        first == Head(filtered_multipliers)
    IN  CASE first.kind = "Once" ->
                (IF cnt = 0 THEN "NotYetFulfilled"
                 ELSE IF cnt = 1 THEN "Fulfilled" ELSE "NotFulfilled")
          [] first.kind = "ZeroOrMore" -> "FulfilledButMoreAllowed"
          [] first.kind = "OneOrMore" ->
                (IF cnt = 0 THEN "NotYetFulfilled" ELSE "FulfilledButMoreAllowed")
          [] first.kind = "Optional" ->
                (IF cnt = 0 THEN "FulfilledButMoreAllowed"
                 ELSE IF cnt = 1 THEN "Fulfilled" ELSE "NotFulfilled")
          [] first.kind = "Between" ->
                (IF cnt < first.min THEN "NotYetFulfilled"
                 ELSE IF cnt >= first.min /\ cnt <= first.max
                      THEN "FulfilledButMoreAllowed"
                      ELSE "NotFulfilled")
          [] OTHER -> "NotFulfilled"

-----------------------------------------------------------------------------
(* Leaf matcher *)

\* f32::MAX, and f32::MIN = -f32::MAX, cut to the numbers of the model
F32_MAX == 2147483647
F32_MIN == 0 - F32_MAX

\* Vec::contains
contains(vec, x) == \E i \in DOMAIN vec : vec[i] = x

\* the SyntaxComponent::Unit arm of match_component_single
match_component_single_unit(value, component) ==
    \/ value.t = "Number" /\ value.n = 0
    \/ /\ value.t = "Unit"
       /\ contains(component.unit, value.s)
       /\ value.n >= unwrap_or(component.from, F32_MIN)
       /\ value.n <= unwrap_or(component.to, F32_MAX)

match_component_single(in, component) ==
    LET value == Head(in)
    IN  CASE component.type = "GenericKeyword" ->
                (IF \/ value.t = "None" /\ eq_ignore_ascii_case(component.name, "none")
                    \/ value.t = "String" /\ eq_ignore_ascii_case(value.s, component.name)
                 THEN first_match(in) ELSE no_match(in))
          [] component.type = "Definition" -> Panicked(in)
          [] component.type = "Inherit" ->
                (IF \/ value.t = "Inherit"
                    \/ value.t = "String" /\ eq_ignore_ascii_case(value.s, "inherit")
                 THEN first_match(in) ELSE no_match(in))
          [] component.type = "Initial" ->
                (IF \/ value.t = "Initial"
                    \/ value.t = "String" /\ eq_ignore_ascii_case(value.s, "initial")
                 THEN first_match(in) ELSE no_match(in))
          [] component.type = "Unset" ->
                (IF value.t = "String" /\ eq_ignore_ascii_case(value.s, "unset")
                 THEN first_match(in) ELSE no_match(in))
          [] component.type = "Literal" ->
                (IF value.t = "String"
                    /\ (value.s = component.name
                        \/ eq_ignore_ascii_case(value.s, component.name))
                 THEN first_match(in) ELSE no_match(in))
          [] component.type = "Function" ->
                (IF value.t # "Function" THEN no_match(in)
                 ELSE IF ~eq_ignore_ascii_case(component.name, value.s) THEN no_match(in)
                 ELSE IF value.n = 0 THEN first_match(in)
                 ELSE Panicked(in))
          [] component.type = "Value" ->
                (IF value = CssZero THEN first_match(in) ELSE no_match(in))
          [] component.type = "Unit" ->
                (IF match_component_single_unit(value, component)
                 THEN first_match(in) ELSE no_match(in))
          [] OTHER -> Panicked(in)

-----------------------------------------------------------------------------
(* Component and group matchers.  Every Rust loop is a recursive operator  *)
(* over the loop's local variables; vector indices are 1-based here.       *)

RECURSIVE match_component(_, _)
RECURSIVE match_component_csv_loop(_, _, _, _, _, _)
RECURSIVE match_component_inner_loop(_, _, _, _, _)
RECURSIVE match_component_group(_, _)
RECURSIVE match_group_exactly_one_loop(_, _, _, _)
RECURSIVE match_group_at_least_one_any_order_loop(_, _, _, _, _)
RECURSIVE match_group_all_any_order_loop(_, _, _, _, _)
RECURSIVE match_group_juxtaposition_loop(_, _, _, _)

\* match_component_inner_step returning the last match once the count is over the maximum
match_component_inner_step_mut_overmax(raw_input, component, in, matched_values, multiplier_count, r) ==
    IF r.panicked THEN r
    ELSE IF r.matched
    THEN LET cnt == multiplier_count + 1
             mv == matched_values \o r.matched_values
             mff == multiplier_fulfilled(component, cnt)
         IN  CASE mff = "NotYetFulfilled" ->
                     match_component_inner_loop(raw_input, component,
                                                r.remainder, mv, cnt)
               [] mff = "FulfilledButMoreAllowed" ->
                     (IF r.remainder = <<>> THEN r
                      ELSE match_component_inner_loop(raw_input, component,
                                                      r.remainder, mv, cnt))
               [] mff = "Fulfilled" -> r
               [] OTHER -> r
    ELSE LET mff == multiplier_fulfilled(component, multiplier_count)
         IN  CASE mff = "NotYetFulfilled" -> r
               [] mff = "Fulfilled" -> r
               [] mff = "FulfilledButMoreAllowed" ->
                     MatchResult(in, TRUE, matched_values)
               [] OTHER -> no_match(raw_input)

\* one iteration of the multiplier loop, after the unit was matched with result r
match_component_inner_step(raw_input, component, in, matched_values, multiplier_count, r) ==
    IF r.panicked THEN r
    ELSE IF r.matched
    THEN LET cnt == multiplier_count + 1
             mv == matched_values \o r.matched_values
             mff == multiplier_fulfilled(component, cnt)
         IN  CASE mff = "NotYetFulfilled" ->
                     match_component_inner_loop(raw_input, component,
                                                r.remainder, mv, cnt)
               [] mff = "FulfilledButMoreAllowed" ->
                     (IF r.remainder = <<>> THEN r
                      ELSE match_component_inner_loop(raw_input, component,
                                                      r.remainder, mv, cnt))
               [] mff = "Fulfilled" -> r
               [] OTHER -> no_match(raw_input)
    ELSE LET mff == multiplier_fulfilled(component, multiplier_count)
         IN  CASE mff = "NotYetFulfilled" -> r
               [] mff = "Fulfilled" -> r
               [] mff = "FulfilledButMoreAllowed" ->
                     MatchResult(in, TRUE, matched_values)
               [] OTHER -> no_match(raw_input)

\* the multiplier loop of match_component_inner
match_component_inner_loop(raw_input, component, in, matched_values, multiplier_count) ==
    IF in = <<>>
    THEN LET mff == multiplier_fulfilled(component, 0)
         IN  IF mff = "Fulfilled" \/ mff = "FulfilledButMoreAllowed"
             THEN MatchResult(<<>>, TRUE, <<>>)
             ELSE no_match(raw_input)
    ELSE match_component_inner_step(raw_input, component, in, matched_values,
                                    multiplier_count,
                                    IF is_group(component)
                                    THEN match_component_group(in, component)
                                    ELSE match_component_single(in, component))

match_component_inner(raw_input, component) ==
    match_component_inner_loop(raw_input, component, raw_input, <<>>, 0)

\* the pair (min, max) of the last CommaSeparatedRepeat among the multipliers
csv_bounds(component) ==
    LET csr == SelectSeq(get_multipliers(component),
                         LAMBDA m : m.kind = "CommaSeparatedRepeat")
    IN  IF csr = <<>>
        THEN [comma_separated |-> FALSE, csv_min |-> 0, csv_max |-> 0]
        ELSE [comma_separated |-> TRUE,
              csv_min |-> csr[Len(csr)].min, csv_max |-> csr[Len(csr)].max]

match_component_csv_end_mut_norange(raw_input, in, csv, csv_cnt, matched_values) ==
    IF csv.comma_separated THEN MatchResult(in, TRUE, matched_values)
    ELSE no_match(raw_input)

\* what follows the CSV loop of match_component
match_component_csv_end(raw_input, in, csv, csv_cnt, matched_values) ==
    IF csv.comma_separated /\ csv_cnt >= csv.csv_min /\ csv_cnt <= csv.csv_max
    THEN MatchResult(in, TRUE, matched_values)
    ELSE no_match(raw_input)

match_component_csv_step_mut_dangling(raw_input, component, csv, in, csv_cnt, matched_values, inner_result) ==
    IF inner_result.panicked THEN inner_result
    ELSE IF ~csv.comma_separated THEN inner_result
    ELSE IF ~inner_result.matched
    THEN match_component_csv_end(raw_input, in, csv, csv_cnt, matched_values)
    ELSE LET cnt == csv_cnt + 1
             mv == matched_values \o inner_result.matched_values
             in1 == inner_result.remainder
         IN  IF in1 = <<>>
             THEN match_component_csv_end(raw_input, in1, csv, cnt, mv)
             ELSE IF Head(in1) # CssComma THEN no_match(raw_input)
             ELSE IF Tail(in1) = <<>>
             THEN match_component_csv_end(raw_input, Tail(in1), csv, cnt, mv)
             ELSE match_component_csv_loop(raw_input, component, csv,
                                           Tail(in1), cnt, mv)

\* one iteration of the CSV loop, after match_component_inner returned inner_result
match_component_csv_step(raw_input, component, csv, in, csv_cnt, matched_values, inner_result) ==
    IF inner_result.panicked THEN inner_result
    ELSE IF ~csv.comma_separated THEN inner_result
    ELSE IF ~inner_result.matched
    THEN match_component_csv_end(raw_input, in, csv, csv_cnt, matched_values)
    ELSE LET cnt == csv_cnt + 1
             mv == matched_values \o inner_result.matched_values
             in1 == inner_result.remainder
         IN  IF in1 = <<>>
             THEN match_component_csv_end(raw_input, in1, csv, cnt, mv)
             ELSE IF Head(in1) # CssComma THEN no_match(raw_input)
             ELSE IF Tail(in1) = <<>> THEN no_match(raw_input)
             ELSE match_component_csv_loop(raw_input, component, csv,
                                           Tail(in1), cnt, mv)

\* the CSV loop of match_component
match_component_csv_loop(raw_input, component, csv, in, csv_cnt, matched_values) ==
    match_component_csv_step(raw_input, component, csv, in, csv_cnt, matched_values,
                             match_component_inner(in, component))

match_component(raw_input, component) ==
    match_component_csv_loop(raw_input, component, csv_bounds(component),
                             raw_input, 0, <<>>)

\* while components_matched.contains(&c_idx) { c_idx += 1 }
skip_matched(components_matched, c_idx) ==
    LET RECURSIVE skip(_)
        skip(i) == IF \E k \in 1..Len(components_matched) : components_matched[k] = i
                   THEN skip(i + 1) ELSE i
    IN  skip(c_idx)

\* one iteration of the while loop of match_group_exactly_one
match_group_exactly_one_step(in, components, c_idx, components_matched, r) ==
    IF r.panicked
    THEN [panicked |-> TRUE, components_matched |-> components_matched]
    ELSE match_group_exactly_one_loop(in, components, c_idx + 1,
            IF r.matched
            THEN Append(components_matched,
                        [c_idx |-> c_idx, matched_values |-> r.matched_values,
                         remainder |-> r.remainder])
            ELSE components_matched)

\* the while loop of match_group_exactly_one: the list components_matched
match_group_exactly_one_loop(in, components, c_idx, components_matched) ==
    IF c_idx > Len(components) \/ in = <<>>
    THEN [panicked |-> FALSE, components_matched |-> components_matched]
    ELSE match_group_exactly_one_step(in, components, c_idx, components_matched,
                                      match_component(in, components[c_idx]))

shortest_remainder_idx_mut_longest(components_matched) ==
    LET RECURSIVE scan(_, _, _)
        scan(idx, best_idx, best_len) ==
            IF idx > Len(components_matched) THEN best_idx
            ELSE IF Len(components_matched[idx].remainder) > best_len
                 THEN scan(idx + 1, idx, Len(components_matched[idx].remainder))
                 ELSE scan(idx + 1, best_idx, best_len)
    IN  scan(1, 1, Len(components_matched[1].remainder))

\* the for loop of match_group_exactly_one: index of the first shortest remainder
shortest_remainder_idx(components_matched) ==
    LET RECURSIVE scan(_, _, _)
        scan(idx, best_idx, best_len) ==
            IF idx > Len(components_matched) THEN best_idx
            ELSE IF Len(components_matched[idx].remainder) < best_len
                 THEN scan(idx + 1, idx, Len(components_matched[idx].remainder))
                 ELSE scan(idx + 1, best_idx, best_len)
    IN  scan(1, 1, Len(components_matched[1].remainder))

match_group_exactly_one_select_mut_first(raw_input, l) ==
    IF l.panicked THEN Panicked(raw_input)
    ELSE IF l.components_matched = <<>> THEN no_match(raw_input)
    ELSE MatchResult(l.components_matched[1].remainder, TRUE,
                     l.components_matched[1].matched_values)

\* match_group_exactly_one after its while loop returned l
match_group_exactly_one_select(raw_input, l) ==
    IF l.panicked THEN Panicked(raw_input)
    ELSE IF l.components_matched = <<>> THEN no_match(raw_input)
    ELSE IF Len(l.components_matched) > 1
    THEN LET idx == shortest_remainder_idx(l.components_matched)
         IN  MatchResult(l.components_matched[idx].remainder, TRUE,
                         l.components_matched[idx].matched_values)
    ELSE MatchResult(l.components_matched[1].remainder, TRUE,
                     l.components_matched[1].matched_values)

match_group_exactly_one(raw_input, components) ==
    match_group_exactly_one_select(raw_input,
        match_group_exactly_one_loop(raw_input, components, 1, <<>>))

match_group_at_least_one_any_order_step_mut_norestart(in, components, c_idx, matched_values, components_matched, r) ==
    IF r.panicked
    THEN [panicked |-> TRUE, in |-> in, matched_values |-> matched_values,
          components_matched |-> components_matched]
    ELSE IF r.matched
    THEN match_group_at_least_one_any_order_loop(
             r.remainder, components,
             skip_matched(Append(components_matched, c_idx), c_idx + 1),
             matched_values \o r.matched_values, Append(components_matched, c_idx))
    ELSE match_group_at_least_one_any_order_loop(
             in, components, skip_matched(components_matched, c_idx + 1),
             matched_values, components_matched)

\* one iteration of the while loop of match_group_at_least_one_any_order
match_group_at_least_one_any_order_step(in, components, c_idx, matched_values, components_matched, r) ==
    IF r.panicked
    THEN [panicked |-> TRUE, in |-> in, matched_values |-> matched_values,
          components_matched |-> components_matched]
    ELSE IF r.matched
    THEN match_group_at_least_one_any_order_loop(
             r.remainder, components,
             skip_matched(Append(components_matched, c_idx), 1),
             matched_values \o r.matched_values, Append(components_matched, c_idx))
    ELSE match_group_at_least_one_any_order_loop(
             in, components, skip_matched(components_matched, c_idx + 1),
             matched_values, components_matched)

\* the while loop of match_group_at_least_one_any_order
match_group_at_least_one_any_order_loop(in, components, c_idx, matched_values, components_matched) ==
    IF c_idx > Len(components) \/ in = <<>>
    THEN [panicked |-> FALSE, in |-> in, matched_values |-> matched_values,
          components_matched |-> components_matched]
    ELSE match_group_at_least_one_any_order_step(
             in, components, c_idx, matched_values, components_matched,
             match_component(in, components[c_idx]))

\* match_group_at_least_one_any_order after its while loop returned l
match_group_at_least_one_any_order_end(raw_input, components, l) ==
    IF l.panicked THEN Panicked(raw_input)
    ELSE IF l.components_matched = <<>> THEN no_match(l.in)
    ELSE MatchResult(l.in, TRUE, l.matched_values)

match_group_at_least_one_any_order(raw_input, components) ==
    match_group_at_least_one_any_order_end(raw_input, components,
        match_group_at_least_one_any_order_loop(raw_input, components, 1, <<>>, <<>>))

\* one iteration of the while loop of match_group_all_any_order
match_group_all_any_order_step(in, components, c_idx, matched_values, components_matched, r) ==
    IF r.panicked
    THEN [panicked |-> TRUE, in |-> in, matched_values |-> matched_values,
          components_matched |-> components_matched]
    ELSE IF r.matched
    THEN match_group_all_any_order_loop(
             r.remainder, components,
             skip_matched(Append(components_matched, c_idx), 1),
             matched_values \o r.matched_values, Append(components_matched, c_idx))
    ELSE match_group_all_any_order_loop(
             in, components, skip_matched(components_matched, c_idx + 1),
             matched_values, components_matched)

\* the while loop of match_group_all_any_order
match_group_all_any_order_loop(in, components, c_idx, matched_values, components_matched) ==
    IF c_idx > Len(components) \/ in = <<>>
    THEN [panicked |-> FALSE, in |-> in, matched_values |-> matched_values,
          components_matched |-> components_matched]
    ELSE match_group_all_any_order_step(
             in, components, c_idx, matched_values, components_matched,
             match_component(in, components[c_idx]))

match_group_all_any_order_end_mut_some(raw_input, components, l) ==
    IF l.panicked THEN Panicked(raw_input)
    ELSE IF l.components_matched = <<>> THEN no_match(l.in)
    ELSE MatchResult(l.in, TRUE, l.matched_values)

\* match_group_all_any_order after its while loop returned l
match_group_all_any_order_end(raw_input, components, l) ==
    IF l.panicked THEN Panicked(raw_input)
    ELSE IF Len(l.components_matched) # Len(components) THEN no_match(l.in)
    ELSE MatchResult(l.in, TRUE, l.matched_values)

match_group_all_any_order(raw_input, components) ==
    match_group_all_any_order_end(raw_input, components,
        match_group_all_any_order_loop(raw_input, components, 1, <<>>, <<>>))

\* one iteration of the while loop of match_group_juxtaposition
match_group_juxtaposition_step(in, components, c_idx, matched_values, r) ==
    IF r.panicked
    THEN [panicked |-> TRUE, in |-> in, matched_values |-> matched_values,
          c_idx |-> c_idx]
    ELSE IF r.matched
    THEN match_group_juxtaposition_loop(r.remainder, components, c_idx + 1,
                                        matched_values \o r.matched_values)
    ELSE [panicked |-> FALSE, in |-> in, matched_values |-> matched_values,
          c_idx |-> c_idx]

\* the while loop of match_group_juxtaposition
match_group_juxtaposition_loop(in, components, c_idx, matched_values) ==
    IF c_idx > Len(components)
    THEN [panicked |-> FALSE, in |-> in, matched_values |-> matched_values,
          c_idx |-> c_idx]
    ELSE match_group_juxtaposition_step(in, components, c_idx, matched_values,
                                        match_component(in, components[c_idx]))

match_group_juxtaposition_end_mut_prefix(raw_input, components, l) ==
    IF l.panicked THEN Panicked(raw_input)
    ELSE IF l.c_idx = 1 THEN no_match(l.in)
    ELSE MatchResult(l.in, TRUE, l.matched_values)

\* match_group_juxtaposition after its while loop returned l
match_group_juxtaposition_end(raw_input, components, l) ==
    IF l.panicked THEN Panicked(raw_input)
    ELSE IF l.c_idx # Len(components) + 1 THEN no_match(l.in)
    ELSE MatchResult(l.in, TRUE, l.matched_values)

match_group_juxtaposition(raw_input, components) ==
    match_group_juxtaposition_end(raw_input, components,
        match_group_juxtaposition_loop(raw_input, components, 1, <<>>))

match_component_group(in, component) ==
    IF component.type # "Group" THEN Panicked(in)
    ELSE CASE component.combinator = "Juxtaposition" ->
                  match_group_juxtaposition(in, component.components)
           [] component.combinator = "AllAnyOrder" ->
                  match_group_all_any_order(in, component.components)
           [] component.combinator = "AtLeastOneAnyOrder" ->
                  match_group_at_least_one_any_order(in, component.components)
           [] component.combinator = "ExactlyOne" ->
                  match_group_exactly_one(in, component.components)

matches_result_mut_prefix(r) ==
    IF r.panicked THEN "panic"
    ELSE IF r.matched THEN "true" ELSE "false"

\* res.matched && res.remainder.is_empty(), or the propagated panic
matches_result(r) ==
    IF r.panicked THEN "panic"
    ELSE IF r.matched /\ r.remainder = <<>> THEN "true" ELSE "false"

\* one pass of the loop of match_component_inner ends the call with a result
\* or goes round again with new locals
Return(result) == [returned |-> TRUE, result |-> result, frame |-> NoFrame]
Continue(f) == [returned |-> FALSE, result |-> no_match(<<>>), frame |-> f]

\* multiplier_count += 1 on a usize that wraps around, the width of the model
\* cut down to the counts 0..MaxMultiplierCount
MaxMultiplierCount == 7

increment(multiplier_count) ==
    IF multiplier_count < MaxMultiplierCount THEN multiplier_count + 1 ELSE 0

\* if component.is_group() { match_component_group } else { match_component_single }
match_unit(in, component) ==
    IF is_group(component) THEN match_component_group(in, component)
    ELSE match_component_single(in, component)

match_component_inner_pass_mut_stop(raw_input, component, f, r) ==
    IF f.input = <<>>
    THEN LET mff == multiplier_fulfilled(component, 0)
         IN  IF mff = "Fulfilled" \/ mff = "FulfilledButMoreAllowed"
             THEN Return(MatchResult(<<>>, TRUE, <<>>))
             ELSE Return(no_match(raw_input))
    ELSE IF r.panicked THEN Return(r)
    ELSE IF r.matched
    THEN LET cnt == increment(f.multiplier_count)
             mv == f.matched_values \o r.matched_values
             mff == multiplier_fulfilled(component, cnt)
         IN  CASE mff = "NotYetFulfilled" -> Continue(Frame(r.remainder, mv, cnt))
               [] mff = "FulfilledButMoreAllowed" ->
                     (IF r.remainder = <<>> THEN Return(r)
                      ELSE Continue(Frame(r.remainder, mv, cnt)))
               [] mff = "Fulfilled" -> Return(r)
               [] OTHER -> Return(MatchResult(f.input, TRUE, f.matched_values))
    ELSE LET mff == multiplier_fulfilled(component, f.multiplier_count)
         IN  CASE mff = "NotYetFulfilled" -> Return(r)
               [] mff = "Fulfilled" -> Return(r)
               [] mff = "FulfilledButMoreAllowed" ->
                     Return(MatchResult(f.input, TRUE, f.matched_values))
               [] OTHER -> Return(no_match(raw_input))

match_component_inner_pass_mut_empty(raw_input, component, f, r) ==
    IF f.input = <<>>
    THEN LET mff == multiplier_fulfilled(component, 0)
         IN  IF mff = "Fulfilled" \/ mff = "FulfilledButMoreAllowed"
             THEN Return(MatchResult(<<>>, TRUE, <<>>))
             ELSE Return(MatchResult(<<>>, mff = "NotYetFulfilled" /\ is_group(component),
                                     <<>>))
    ELSE IF r.panicked THEN Return(r)
    ELSE IF r.matched
    THEN LET cnt == increment(f.multiplier_count)
             mv == f.matched_values \o r.matched_values
             mff == multiplier_fulfilled(component, cnt)
         IN  CASE mff = "NotYetFulfilled" -> Continue(Frame(r.remainder, mv, cnt))
               [] mff = "FulfilledButMoreAllowed" ->
                     (IF r.remainder = <<>> THEN Return(r)
                      ELSE Continue(Frame(r.remainder, mv, cnt)))
               [] mff = "Fulfilled" -> Return(r)
               [] OTHER -> Return(no_match(raw_input))
    ELSE LET mff == multiplier_fulfilled(component, f.multiplier_count)
         IN  CASE mff = "NotYetFulfilled" -> Return(r)
               [] mff = "Fulfilled" -> Return(r)
               [] mff = "FulfilledButMoreAllowed" ->
                     Return(MatchResult(f.input, TRUE, f.matched_values))
               [] OTHER -> Return(no_match(raw_input))

\* one pass of the loop of match_component_inner with the locals f; r is the
\* result of matching the unit on f.input
match_component_inner_pass(raw_input, component, f, r) ==
    IF f.input = <<>>
    THEN LET mff == multiplier_fulfilled(component, 0)
         IN  IF mff = "Fulfilled" \/ mff = "FulfilledButMoreAllowed"
             THEN Return(MatchResult(<<>>, TRUE, <<>>))
             ELSE Return(no_match(raw_input))
    ELSE IF r.panicked THEN Return(r)
    ELSE IF r.matched
    THEN LET cnt == increment(f.multiplier_count)
             mv == f.matched_values \o r.matched_values
             mff == multiplier_fulfilled(component, cnt)
         IN  CASE mff = "NotYetFulfilled" -> Continue(Frame(r.remainder, mv, cnt))
               [] mff = "FulfilledButMoreAllowed" ->
                     (IF r.remainder = <<>> THEN Return(r)
                      ELSE Continue(Frame(r.remainder, mv, cnt)))
               [] mff = "Fulfilled" -> Return(r)
               [] OTHER -> Return(no_match(raw_input))
    ELSE LET mff == multiplier_fulfilled(component, f.multiplier_count)
         IN  CASE mff = "NotYetFulfilled" -> Return(r)
               [] mff = "Fulfilled" -> Return(r)
               [] mff = "FulfilledButMoreAllowed" ->
                     Return(MatchResult(f.input, TRUE, f.matched_values))
               [] OTHER -> Return(no_match(raw_input))

\* CssSyntaxTree::matches: "true", "false", or "panic"
matches(components, in) ==
    IF Len(components) # 1 THEN "panic"
    ELSE matches_result(match_component(in, components[1]))

-----------------------------------------------------------------------------
(* Grammar compiler.  A parser takes a lexeme sequence and returns          *)
(* [ok, rest, val] (nom's IResult).  The vocabulary of the model has no     *)
(* unit(...) pseudo-function, no "()" after a datatype name, no quoted text  *)
(* of more than one word and no number other than a single digit.           *)

U32_MAX == 2147483647

POk(rest, val) == [ok |-> TRUE, rest |-> rest, val |-> val]
PErr == [ok |-> FALSE, rest |-> <<>>, val |-> <<>>]

Reserved ==
    {" ", "|", "||", "&&", "[", "]", "*", "+", "?", "!", "#", "{", "}", ",", "/",
     "(", ")", "<", ">", "'"}

Digits == {"0", "1", "2", "3", "4", "5", "6", "7", "8", "9"}

digit_value(tok) ==
    CASE tok = "0" -> 0 [] tok = "1" -> 1 [] tok = "2" -> 2
      [] tok = "3" -> 3 [] tok = "4" -> 4 [] tok = "5" -> 5
      [] tok = "6" -> 6 [] tok = "7" -> 7 [] tok = "8" -> 8
      [] tok = "9" -> 9

RECURSIVE space0(_)
space0(in) == IF in # <<>> /\ Head(in) = " " THEN space0(Tail(in)) ELSE in

\* tag(t): a "|" is also found at the start of the lexeme "||"
tag(t, in) ==
    IF in = <<>> THEN PErr
    ELSE IF Head(in) = t THEN POk(Tail(in), t)
    ELSE IF t = "|" /\ Head(in) = "||" THEN POk(<<"|">> \o Tail(in), t)
    ELSE PErr

\* ws(inner): spaces around a parser, applied to the parser's result r on the
\* input without its leading spaces
ws(r) == IF r.ok THEN POk(space0(r.rest), r.val) ELSE PErr

\* ws(tag(t))
ws_tag(t, in) == ws(tag(t, space0(in)))

parse_keyword(in) ==
    IF in # <<>> /\ Head(in) \notin Reserved THEN POk(Tail(in), Head(in)) ELSE PErr

integer(in) ==
    IF in # <<>> /\ Head(in) \in Digits THEN POk(Tail(in), digit_value(Head(in)))
    ELSE PErr

\* ws(integer)
ws_integer(in) == ws(integer(space0(in)))

\* separated_pair(min, ",", max) after min = a and the comma; else "num" = a
multiplier_range_max(a, b) ==
    IF b.ok THEN POk(b.rest, <<a.val, b.val>>) ELSE POk(a.rest, <<a.val, a.val>>)

multiplier_range_comma(a, c) ==
    IF c.ok THEN multiplier_range_max(a, ws_integer(c.rest))
    ELSE POk(a.rest, <<a.val, a.val>>)

multiplier_range_min(a) ==
    IF a.ok THEN multiplier_range_comma(a, ws_tag(",", a.rest)) ELSE PErr

\* the parser "range" of the two multiplier parsers: "min , max" or "num"
multiplier_range(in) == multiplier_range_min(ws_integer(in))

\* delimited(open, range, close) after range = r and close = c
multiplier_range_close(r, c) == IF c.ok THEN POk(c.rest, r.val) ELSE PErr

curly_braces_range(r) ==
    IF r.ok THEN multiplier_range_close(r, tag("}", r.rest)) ELSE PErr

curly_braces_open(o) ==
    IF o.ok THEN curly_braces_range(multiplier_range(o.rest)) ELSE PErr

to_between(r) == IF r.ok THEN POk(r.rest, Between(r.val[1], r.val[2])) ELSE PErr

parse_curly_braces_multiplier(in) == to_between(curly_braces_open(tag("{", in)))

comma_separated_range(r) ==
    IF r.ok THEN multiplier_range_close(r, ws_tag("}", r.rest)) ELSE PErr

comma_separated_open(o) ==
    IF o.ok THEN comma_separated_range(multiplier_range(space0(o.rest))) ELSE PErr

\* opt(range) after "#": the range r, or (1, u32::MAX) and nothing consumed
comma_separated_opt(h, r) ==
    IF r.ok THEN POk(r.rest, CommaSeparatedRepeat(r.val[1], r.val[2]))
    ELSE POk(space0(h.rest), CommaSeparatedRepeat(1, U32_MAX))

comma_separated_hash(h) ==
    IF h.ok THEN comma_separated_opt(h, comma_separated_open(tag("{", h.rest)))
    ELSE PErr

parse_comma_separated_multiplier(in) == comma_separated_hash(tag("#", space0(in)))

\* value(m, tag(t))
tag_value(t, m, in) == IF tag(t, in).ok THEN POk(Tail(in), m) ELSE PErr

\* alt((a, b)): the first parser that succeeds
alt(a, b) == IF a.ok THEN a ELSE b

parse_multipliers(in) ==
    alt(tag_value("*", ZeroOrMore, in),
    alt(tag_value("+", OneOrMore, in),
    alt(tag_value("?", Optional, in),
    alt(tag_value("!", AtLeastOneValue, in),
    alt(parse_comma_separated_multiplier(in),
    alt(parse_curly_braces_multiplier(in),
        POk(in, Once)))))))

RECURSIVE parse_component(_)
RECURSIVE parse_component_singlebar_list(_)
RECURSIVE parse_component_doublebar_list(_)
RECURSIVE parse_component_doubleampersand_list(_)
RECURSIVE parse_component_juxtaposition_list(_)
RECURSIVE juxtaposition_or_separated_list(_, _)
RECURSIVE singlebar_separated_list1(_, _)
RECURSIVE doublebar_separated_list1(_, _)
RECURSIVE doubleampersand_separated_list1(_, _)

\* the map closure of the four list parsers: a list of one element is the
\* element itself, a longer one a group with the list's combinator
list_to_component(l, combinator) ==
    IF ~l.ok THEN PErr
    ELSE IF Len(l.val) = 1 THEN POk(l.rest, l.val[1])
    ELSE POk(l.rest, Group(l.val, combinator))

\* returns (input without leading spaces, "another juxtaposed element follows")
juxtaseparator(in) ==
    LET i == space0(in)
    IN  IF i = <<>> THEN POk(i, FALSE)
        ELSE POk(i, Head(i) \notin {"]", "|", "||", "&&"})

\* one iteration of the loop of juxtaposition_or_separated_list, after the
\* element parser returned e
juxtaposition_or_separated_list_step(elements, e) ==
    IF ~e.ok THEN PErr
    ELSE LET result == juxtaseparator(e.rest)
             elems == Append(elements, e.val)
         IN  IF ~result.val THEN POk(result.rest, elems)
             ELSE juxtaposition_or_separated_list(result.rest, elems)

juxtaposition_or_separated_list(in, elements) ==
    juxtaposition_or_separated_list_step(elements, parse_component(space0(in)))

parse_component_juxtaposition_list(in) ==
    list_to_component(juxtaposition_or_separated_list(in, <<>>), "Juxtaposition")

\* separated_list1 after a separator: e is the element parser's result
doubleampersand_separated_list1_step(in, components, e) ==
    IF e.ok THEN doubleampersand_separated_list1(e.rest, Append(components, e.val))
    ELSE POk(in, components)

\* separated_list1(ws(tag("&&")), parse_component_juxtaposition_list) after its first element
doubleampersand_separated_list1(in, components) ==
    LET sep == ws_tag("&&", in)
    IN  IF ~sep.ok THEN POk(in, components)
        ELSE doubleampersand_separated_list1_step(in, components,
                 parse_component_juxtaposition_list(sep.rest))

\* separated_list1 after its first element f
doubleampersand_separated_list1_first(f) ==
    IF f.ok THEN doubleampersand_separated_list1(f.rest, <<f.val>>) ELSE PErr

parse_component_doubleampersand_list(in) ==
    list_to_component(
        doubleampersand_separated_list1_first(parse_component_juxtaposition_list(in)),
        "AllAnyOrder")

doublebar_separated_list1_step(in, components, e) ==
    IF e.ok THEN doublebar_separated_list1(e.rest, Append(components, e.val))
    ELSE POk(in, components)

\* separated_list1(ws(tag("||")), parse_component_doubleampersand_list) after its first element
doublebar_separated_list1(in, components) ==
    LET sep == ws_tag("||", in)
    IN  IF ~sep.ok THEN POk(in, components)
        ELSE doublebar_separated_list1_step(in, components,
                 parse_component_doubleampersand_list(sep.rest))

doublebar_separated_list1_first(f) ==
    IF f.ok THEN doublebar_separated_list1(f.rest, <<f.val>>) ELSE PErr

parse_component_doublebar_list(in) ==
    list_to_component(
        doublebar_separated_list1_first(parse_component_doubleampersand_list(in)),
        "AtLeastOneAnyOrder")

singlebar_separated_list1_step(in, components, e) ==
    IF e.ok THEN singlebar_separated_list1(e.rest, Append(components, e.val))
    ELSE POk(in, components)

\* separated_list1(ws(tag("|")), parse_component_doublebar_list) after its first element
singlebar_separated_list1(in, components) ==
    LET sep == ws_tag("|", in)
    IN  IF ~sep.ok THEN POk(in, components)
        ELSE singlebar_separated_list1_step(in, components,
                 parse_component_doublebar_list(sep.rest))

singlebar_separated_list1_first(f) ==
    IF f.ok THEN singlebar_separated_list1(f.rest, <<f.val>>) ELSE PErr

parse_component_singlebar_list_mut_combinator(in) ==
    list_to_component(
        singlebar_separated_list1_first(parse_component_doublebar_list(in)),
        "AtLeastOneAnyOrder")

parse_component_singlebar_list(in) ==
    list_to_component(
        singlebar_separated_list1_first(parse_component_doublebar_list(in)),
        "ExactlyOne")

\* delimited(ws("["), list, ws("]")) after the list parser returned l
parse_group_close(l) ==
    LET c == IF l.ok THEN ws_tag("]", l.rest) ELSE PErr
    IN  IF c.ok THEN POk(c.rest, l.val) ELSE PErr

parse_group(in) ==
    LET o == ws_tag("[", in)
    IN  IF ~o.ok THEN PErr
        ELSE parse_group_close(parse_component_singlebar_list(o.rest))

\* arglist after ws("("): the list parser returned al; Some(_arglist) is
\* dropped and arguments is vec![]
parse_function_arglist_close(name, al) ==
    LET ac == IF al.ok THEN ws_tag(")", al.rest) ELSE PErr
    IN  IF ac.ok THEN POk(ac.rest, Function(name, <<>>)) ELSE PErr

parse_function(in) ==
    LET name == parse_keyword(in)
        \* empty_arglist: space0 "(" space0, space0, space0 ")" space0
        eo == IF name.ok THEN tag("(", space0(name.rest)) ELSE PErr
        ec == IF eo.ok THEN tag(")", space0(eo.rest)) ELSE PErr
        \* arglist: ws("("), ws(parse_component_singlebar_list), ws(")")
        ao == IF name.ok THEN ws_tag("(", name.rest) ELSE PErr
    IN  IF ec.ok THEN POk(space0(ec.rest), Function(name.val, <<>>))
        ELSE IF ~ao.ok THEN PErr
        ELSE parse_function_arglist_close(name.val,
                 parse_component_singlebar_list(ao.rest))

parse_property(in) ==
    LET o == tag("'", in)
        k == IF o.ok THEN parse_keyword(o.rest) ELSE PErr
        c == IF k.ok THEN tag("'", k.rest) ELSE PErr
    IN  IF c.ok THEN POk(c.rest, Leaf("Property", k.val)) ELSE PErr

parse_specific_keyword(in) ==
    IF tag("inherit", in).ok THEN POk(Tail(in), Leaf("Inherit", ""))
    ELSE IF tag("initial", in).ok THEN POk(Tail(in), Leaf("Initial", ""))
    ELSE IF tag("unset", in).ok THEN POk(Tail(in), Leaf("Unset", ""))
    ELSE PErr

parse_literal(in) ==
    LET slash == ws_tag("/", in)
        comma == ws_tag(",", in)
    IN  IF slash.ok THEN POk(slash.rest, Leaf("Literal", "/"))
        ELSE IF comma.ok THEN POk(comma.rest, Leaf("Literal", ","))
        ELSE PErr

\* a bare "0" is the zero literal; any other bare number is an error
parse_unit(in) ==
    IF tag("0", in).ok THEN POk(Tail(in), Leaf("Value", "0")) ELSE PErr

\* the ? of a nom parser chain: an error is returned at once, a result is
\* handed to the rest of the chain
and_then(r, F(_)) == IF r.ok THEN F(r) ELSE PErr

\* opt(parser).unwrap_or(default): the input is kept when the parser fails
opt_or(r, in, default) == IF r.ok THEN r ELSE POk(in, default)

\* tag_no_case("inf") and tag_no_case("-inf"), the sign a lexeme of its own
parse_infinity(in) ==
    IF in # <<>> /\ Head(in) = "inf" THEN POk(Tail(in), NumberOrInfinity("Infinity", 0))
    ELSE IF Len(in) >= 2 /\ in[1] = "-" /\ in[2] = "inf"
    THEN POk(Tail(Tail(in)), NumberOrInfinity("NegativeInfinity", 0))
    ELSE PErr

\* pair(opt(char('-')), digit1), the number a single digit
parse_signed_integer(in) ==
    IF in # <<>> /\ Head(in) = "-"
    THEN and_then(integer(Tail(in)),
                  LAMBDA d : POk(d.rest, NumberOrInfinity("FiniteI64", 0 - d.val)))
    ELSE and_then(integer(in),
                  LAMBDA d : POk(d.rest, NumberOrInfinity("FiniteI64", d.val)))

\* opt(ws(alt((parse_infinity, parse_signed_integer)))), unwrap_or(None)
datatype_range_bound(in) ==
    opt_or(ws(alt(parse_infinity(space0(in)), parse_signed_integer(space0(in)))),
           in, NumberOrInfinity("None", 0))

\* delimited(ws("["), separated_pair(min, ",", max), ws("]")): the two bounds
\* are stored as written
datatype_range(in) ==
    and_then(ws_tag("[", in), LAMBDA o :
    and_then(datatype_range_bound(o.rest), LAMBDA min :
    and_then(tag(",", min.rest), LAMBDA c :
    and_then(datatype_range_bound(c.rest), LAMBDA max :
    and_then(ws_tag("]", max.rest), LAMBDA cl :
    POk(cl.rest, RangeType(min.val, max.val)))))))

\* the name of a datatype, plain or between quotes, with its quoted flag
parse_datatype_name(in) ==
    alt(and_then(parse_keyword(in), LAMBDA k : POk(k.rest, <<k.val, FALSE>>)),
        and_then(ws_tag("'", in), LAMBDA q :
        and_then(parse_keyword(q.rest), LAMBDA k :
        and_then(ws_tag("'", k.rest), LAMBDA qc :
        POk(qc.rest, <<k.val, TRUE>>)))))

parse_datatype(in) ==
    and_then(ws_tag("<", in), LAMBDA o :
    and_then(parse_datatype_name(o.rest), LAMBDA name :
    and_then(opt_or(datatype_range(name.rest), name.rest, RangeType_empty),
             LAMBDA range :
    and_then(ws_tag(">", range.rest), LAMBDA c :
    POk(c.rest, Definition(name.val[1], name.val[2], range.val))))))

parse_generic_keyword(in) ==
    LET k == parse_keyword(in)
    IN  IF k.ok THEN POk(k.rest, Leaf("GenericKeyword", k.val)) ELSE PErr

\* parse_component after its alt((...)) returned c
parse_component_multipliers(c) ==
    IF ~c.ok THEN PErr
    ELSE LET multipliers == parse_multipliers(c.rest)
         IN  POk(multipliers.rest, update_multiplier(c.val, multipliers.val))

parse_component(in) ==
    parse_component_multipliers(
        alt(parse_function(in),
        alt(parse_property(in),
        alt(parse_specific_keyword(in),
        alt(parse_literal(in),
        alt(parse_group(in),
        alt(parse_unit(in),
        alt(parse_datatype(in),
            parse_generic_keyword(in)))))))))

parse(in) == parse_component_singlebar_list(space0(in))

\* input.trim().is_empty()
trim_is_empty(in) == space0(in) = <<>>

compile_mut_leftover(src) ==
    IF src = <<>> THEN [ok |-> TRUE, components |-> <<>>]
    ELSE LET p == parse(src)
         IN  IF p.ok
             THEN [ok |-> TRUE, components |-> <<p.val>>]
             ELSE [ok |-> FALSE, components |-> <<>>]

\* CssSyntax::compile: Ok(CssSyntaxTree) or Err(CssCompile)
compile(src) ==
    IF src = <<>> THEN [ok |-> TRUE, components |-> <<>>]
    ELSE LET p == parse(src)
         IN  IF p.ok
             THEN IF ~trim_is_empty(p.rest)
                  THEN [ok |-> FALSE, components |-> <<>>]
                  ELSE [ok |-> TRUE, components |-> <<p.val>>]
             ELSE [ok |-> FALSE, components |-> <<>>]

-----------------------------------------------------------------------------
(* Bounds and the inputs the properties are verified on *)

MaxLen == 3
MaxKeywordLen == 4
MaxMultiplierLen == 6
MaxCommaLen == 5

SeqsUpTo(S, n) == UNION {[1..k -> S] : k \in 0..n}

Values == {CssString("foo"), CssString("bar"), CssString("FOO"), CssComma,
           CssFunction("foo", 0), CssFunction("foo", 1)}

KeywordValues == {CssString("auto"), CssString("AUTO"), CssNone, CssString("block"),
                  CssString("inline"), CssComma}

MultiplierValues == {CssString("foo"), CssString("bar"), CssString("baz")}

CommaValues == {CssString("foo"), CssString("bar"), CssString("baz"), CssComma}

SrcMatcher3 ==
    <<"foo", " ", "|", " ", "[", " ", "foo", " ", "[", " ", "foo", " ", "|", " ",
      "bar", " ", "]", " ", "]">>
SrcPlusOrPair == <<"foo", "+", " ", "|", " ", "foo", " ", "foo">>
SrcPairOrPlus == <<"foo", " ", "foo", " ", "|", " ", "foo", "+">>
SrcShortOrLong == <<"foo", " ", "|", " ", "foo", " ", "bar">>
SrcLongOrShort == <<"foo", " ", "bar", " ", "|", " ", "foo">>
SrcOptOrBar == <<"foo", "?", " ", "|", " ", "bar">>
SrcStarThenFoo == <<"foo", "*", " ", "foo">>
SrcGroupThenBar ==
    <<"[", " ", "foo", " ", "|", " ", "foo", " ", "bar", " ", "]", " ", "bar">>
SrcOptOpt == <<"foo", "?", " ", "bar", "?">>
SrcAnyOrder == <<"foo", " ", "||", " ", "bar">>
SrcAllOrder == <<"foo", " ", "&&", " ", "bar">>
SrcEmpty == <<>>
SrcDatatype == <<"<", "foo", ">">>
SrcProperty == <<"'", "foo", "'">>
SrcFunction == <<"foo", "(", ")">>
SrcFunctionArgs == <<"foo", "(", "bar", "?", ")", "{", "2", ",", "4", "}">>
SrcInherit == <<"inherit", " ", "|", " ", "foo">>
SrcLiteral == <<"foo", " ", ",", " ", "bar">>
SrcZero == <<"0", " ", "|", " ", "foo">>
SrcDangling == <<"foo", " ", "]">>
SrcNoOperand == <<"|", " ", "foo">>

Sources ==
    {SrcMatcher3, SrcPlusOrPair, SrcPairOrPlus, SrcShortOrLong, SrcLongOrShort,
     SrcOptOrBar, SrcStarThenFoo, SrcGroupThenBar, SrcOptOpt, SrcAnyOrder,
     SrcAllOrder, SrcEmpty, SrcDatatype, SrcProperty, SrcFunction, SrcFunctionArgs,
     SrcInherit, SrcLiteral, SrcZero, SrcDangling, SrcNoOperand}

SrcJuxta3 == <<"auto", " ", "none", " ", "block">>
SrcJuxta2 == <<"auto", " ", "none">>
SrcAll3 == <<"auto", " ", "&&", " ", "none", " ", "&&", " ", "block">>
SrcAll2 == <<"auto", " ", "&&", " ", "none">>
SrcAny3 == <<"auto", " ", "||", " ", "none", " ", "||", " ", "block">>
SrcAny2 == <<"auto", " ", "||", " ", "none">>

SrcMultOptional == <<"foo", " ", "bar", "?", " ", "baz">>
SrcMultZeroOrMore == <<"foo", " ", "bar", "*", " ", "baz">>
SrcMultOneOrMore == <<"foo", " ", "bar", "+", " ", "baz">>
SrcMultBetween13 == <<"foo", " ", "bar", "{", "1", ",", "3", "}", " ", "baz">>
SrcMultBetween02 == <<"foo", " ", "bar", "{", "0", ",", "2", "}", " ", "baz">>
SrcMultBetween2 == <<"foo", " ", "bar", "{", "2", "}", " ", "baz">>

MultiplierSources ==
    {SrcMultOptional, SrcMultZeroOrMore, SrcMultOneOrMore, SrcMultBetween13,
     SrcMultBetween02, SrcMultBetween2}

SrcCommaGroup == <<"[", "foo", " ", "|", " ", "bar", " ", "|", " ", "baz", "]", "#">>
SrcCommaKeyword == <<"foo", "#">>
SrcCommaRange == <<"foo", "#", "{", "2", ",", "3", "}">>
SrcCommaRange12 == <<"foo", "#", "{", "1", ",", "2", "}">>

-----------------------------------------------------------------------------
(* The property registry: CssPropertyDefinitions *)

None == [some |-> FALSE]
Some(v) == [some |-> TRUE, value |-> v]

\* CssSyntaxTree::new(vec![])
EmptySyntaxTree == <<>>

PropertyDefinition(name, expanded_properties, syntax, inherits, initial_value) ==
    [name |-> name, expanded_properties |-> expanded_properties, syntax |-> syntax,
     inherits |-> inherits, initial_value |-> initial_value]

\* HashMap::insert(key, value): the value of an existing key is replaced
insert(map, key, value) ==
    [k \in (DOMAIN map) \cup {key} |-> IF k = key THEN value ELSE map[k]]

\* CssPropertyDefinitions::empty()
empty == <<>>

add_definition_mut_keep(defs, name, definition) ==
    IF name \in DOMAIN defs THEN defs ELSE insert(defs, name, definition)

add_definition(defs, name, definition) == insert(defs, name, definition)

find(defs, name) == IF name \in DOMAIN defs THEN Some(defs[name]) ELSE None

len(defs) == Cardinality(DOMAIN defs)

is_empty(defs) == DOMAIN defs = {}

\* the syntax of one entry: the compiled tree, or the empty tree the entry
\* started with when compile() returns an error
entry_syntax(compiled) ==
    IF compiled.ok THEN compiled.components ELSE EmptySyntaxTree

entry_definition(entry) ==
    PropertyDefinition(entry.name, entry.expanded_properties,
                       entry_syntax(compile(entry.syntax)), entry.inherits, None)

RECURSIVE parse_definition_file_loop(_, _, _)
parse_definition_file_loop(json, i, defs) ==
    IF i > Len(json) THEN defs
    ELSE parse_definition_file_loop(
             json, i + 1, insert(defs, json[i].name, entry_definition(json[i])))

parse_definition_file_internal(json) == parse_definition_file_loop(json, 1, <<>>)

-----------------------------------------------------------------------------

(* The state machine: CssSyntax::new(source), compile(), tree.matches(input) *)

NoTree == [ok |-> FALSE, components |-> <<>>]

\* let _gid = rand::random::<u8>(): the values a call of match_component may
\* draw; the value is never read
MaxGid == 1
Gids == 0..MaxGid

\* no component is handed to a direct call of a matcher function
NoComponent == Leaf("GenericKeyword", "")

\* no registry has been built
NoRegistry ==
    /\ definitions = <<>>
    /\ entries = <<>>
    /\ added = <<>>

InitWith(srcs, inputs) ==
    /\ source \in srcs
    /\ input \in inputs
    /\ tree = NoTree
    /\ res = no_match(<<>>)
    /\ accepted = "none"
    /\ pc = "new"
    /\ call_component = NoComponent
    /\ call_cnt = 0
    /\ fulfillment = "none"
    /\ gid = 0
    /\ NoRegistry
    /\ frame = NoFrame

Init == InitWith(Sources, SeqsUpTo(Values, MaxLen))

Compile ==
    /\ pc = "new"
    /\ tree' = compile(source)
    /\ pc' = IF tree'.ok THEN "compiled" ELSE "error"
    /\ UNCHANGED <<source, input, res, accepted, call_component, call_cnt,
                   fulfillment, gid, registryVars, frame>>

Matches ==
    /\ pc = "compiled"
    /\ accepted' = matches(tree.components, input)
    /\ res' = IF Len(tree.components) = 1
              THEN match_component(input, tree.components[1])
              ELSE Panicked(input)
    /\ gid' \in Gids
    /\ pc' = "matched"
    /\ UNCHANGED <<source, input, tree, call_component, call_cnt, fulfillment,
                   registryVars, frame>>

MatchesAgain_mut_consume ==
    /\ pc \in {"matched", "rematched"}
    /\ input' = res.remainder
    /\ accepted' = matches(tree.components, input')
    /\ res' = IF Len(tree.components) = 1
              THEN match_component(input', tree.components[1])
              ELSE Panicked(input')
    /\ gid' \in Gids
    /\ pc' = "rematched"
    /\ UNCHANGED <<source, tree, call_component, call_cnt, fulfillment, registryVars, frame>>

\* tree.matches(input) called again on the same tree with the same values
MatchesAgain ==
    /\ pc \in {"matched", "rematched"}
    /\ accepted' = matches(tree.components, input)
    /\ res' = IF Len(tree.components) = 1
              THEN match_component(input, tree.components[1])
              ELSE Panicked(input)
    /\ gid' \in Gids
    /\ pc' = "rematched"
    /\ UNCHANGED <<source, input, tree, call_component, call_cnt, fulfillment,
                   registryVars, frame>>

Next == Compile \/ Matches

Spec == Init /\ [][Next]_vars

SpecJuxtaposition ==
    InitWith({SrcJuxta3, SrcJuxta2}, SeqsUpTo(KeywordValues, MaxKeywordLen))
    /\ [][Next]_vars

SpecAllAnyOrder ==
    InitWith({SrcAll3, SrcAll2}, SeqsUpTo(KeywordValues, MaxKeywordLen))
    /\ [][Next]_vars

SpecAtLeastOneAnyOrder ==
    InitWith({SrcAny3, SrcAny2}, SeqsUpTo(KeywordValues, MaxKeywordLen))
    /\ [][Next]_vars

SpecMultipliers ==
    InitWith(MultiplierSources, SeqsUpTo(MultiplierValues, MaxMultiplierLen))
    /\ [][Next]_vars

SpecCommaSeparated ==
    InitWith({SrcCommaGroup, SrcCommaKeyword, SrcCommaRange, SrcCommaRange12},
             SeqsUpTo(CommaValues, MaxCommaLen))
    /\ [][Next]_vars

\* repeated calls of matches on one tree
MaxPurityLen == 2

NextPurity == Compile \/ Matches \/ MatchesAgain

SpecPurity ==
    InitWith(Sources, SeqsUpTo(Values, MaxPurityLen)) /\ [][NextPurity]_vars

\* sources that compile, that leave text over and that the parser refuses
MaxCompileLen == 2

CompileValues == {CssString("foo"), CssString("bar")}

SrcTrailingSpace == <<"foo", " ">>
SrcLeadingSpace == <<" ", "foo">>
SrcOnlySpace == <<" ">>
SrcTrailingBar == <<"foo", " ", "|", " ">>
SrcUnclosedGroup == <<"[", " ", "foo">>
SrcKeyword == <<"foo">>

CompileSources ==
    {SrcEmpty, SrcKeyword, SrcTrailingSpace, SrcLeadingSpace, SrcOnlySpace,
     SrcTrailingBar, SrcUnclosedGroup, SrcDangling, SrcNoOperand, SrcFunctionArgs,
     SrcMatcher3, SrcOptOpt}

SpecCompile ==
    InitWith(CompileSources, SeqsUpTo(CompileValues, MaxCompileLen))
    /\ [][Next]_vars

\* the precedence tests
MaxPrecedenceLen == 2

PrecedenceValues ==
    {CssString("left"), CssString("right"), CssString("top"), CssString("bottom")}

SrcLeftRightOrTopBottom ==
    <<"left", " ", "right", " ", "|", " ", "top", " ", "bottom">>
SrcLeftOrRightAndTop == <<"left", " ", "|", " ", "right", " ", "&&", " ", "top">>
SrcLeftAndRightOrTop == <<"left", " ", "&&", " ", "right", " ", "|", " ", "top">>
SrcAndOrAnyJuxta ==
    <<"left", " ", "&&", " ", "right", " ", "|", " ", "foo", " ", "||", " ",
      "bar", " ", "baz">>
SrcAnyAnd == <<"left", " ", "||", " ", "right", " ", "&&", " ", "top">>
SrcAndJuxta == <<"left", " ", "right", " ", "&&", " ", "top">>
SrcBracketOrAnd ==
    <<"[", " ", "left", " ", "|", " ", "right", " ", "]", " ", "&&", " ", "top">>
SrcJuxtaBracketOr ==
    <<"left", " ", "[", " ", "right", " ", "|", " ", "top", " ", "]", " ", "bottom">>

PrecedenceSources ==
    {SrcLeftRightOrTopBottom, SrcLeftOrRightAndTop, SrcLeftAndRightOrTop,
     SrcAndOrAnyJuxta, SrcAnyAnd, SrcAndJuxta, SrcBracketOrAnd, SrcJuxtaBracketOr}

SpecPrecedence ==
    InitWith(PrecedenceSources, SeqsUpTo(PrecedenceValues, MaxPrecedenceLen))
    /\ [][Next]_vars

\* a direct call of multiplier_fulfilled(component, cnt)
MaxCount == 3

FulfillmentMultipliers ==
    {Once, ZeroOrMore, OneOrMore, Optional, AtLeastOneValue}
    \cup {Between(a, b) : a, b \in 0..MaxCount}
    \cup {CommaSeparatedRepeat(a, b) : a, b \in 0..MaxCount}

InitFulfillment ==
    /\ source = <<>>
    /\ input = <<>>
    /\ tree = NoTree
    /\ res = no_match(<<>>)
    /\ accepted = "none"
    /\ pc = "new"
    /\ call_component \in {update_multiplier(Group(<<>>, "Juxtaposition"), m) :
                          m \in FulfillmentMultipliers}
    /\ call_cnt \in 0..(MaxCount + 1)
    /\ fulfillment = "none"
    /\ gid = 0
    /\ NoRegistry
    /\ frame = NoFrame

MultiplierFulfilled ==
    /\ pc = "new"
    /\ fulfillment' = multiplier_fulfilled(call_component, call_cnt)
    /\ pc' = "fulfilled"
    /\ UNCHANGED <<source, input, tree, res, accepted, call_component, call_cnt, gid,
                   registryVars, frame>>

NextFulfillment == MultiplierFulfilled

SpecFulfillment == InitFulfillment /\ [][NextFulfillment]_vars

\* the registry: a definition table loaded from the JSON entries, or an empty
\* registry filled by add_definition
MaxEntries == 2
MaxAdds == 3

PropertyNames == {"color", "border-style"}

Entries ==
    [name : PropertyNames, expanded_properties : {<<>>},
     syntax : {SrcKeyword, SrcMatcher3, SrcDangling},
     inherits : {FALSE}]

AddedDefinitions ==
    {PropertyDefinition("color", <<>>, compile(SrcFunction).components, FALSE, None),
     PropertyDefinition("border-style", <<"border-top-style">>,
                        compile(SrcEmpty).components, FALSE,
                        Some(CssString("thick")))}

InitRegistry ==
    /\ source = <<>>
    /\ input = <<>>
    /\ tree = NoTree
    /\ res = no_match(<<>>)
    /\ accepted = "none"
    /\ pc = "new"
    /\ call_component = NoComponent
    /\ call_cnt = 0
    /\ fulfillment = "none"
    /\ gid = 0
    /\ definitions = <<>>
    /\ entries \in SeqsUpTo(Entries, MaxEntries)
    /\ added = <<>>
    /\ frame = NoFrame

ParseDefinitionFile ==
    /\ pc = "new"
    /\ definitions' = parse_definition_file_internal(entries)
    /\ pc' = "loaded"
    /\ UNCHANGED <<source, input, tree, res, accepted, call_component, call_cnt,
                   fulfillment, gid, entries, added, frame>>

Empty ==
    /\ pc = "new"
    /\ definitions' = empty
    /\ pc' = "empty"
    /\ UNCHANGED <<source, input, tree, res, accepted, call_component, call_cnt,
                   fulfillment, gid, entries, added, frame>>

AddDefinition ==
    /\ pc = "empty"
    /\ Len(added) < MaxAdds
    /\ \E name \in PropertyNames, definition \in AddedDefinitions :
           /\ definitions' = add_definition(definitions, name, definition)
           /\ added' = Append(added, [name |-> name, definition |-> definition])
    /\ UNCHANGED <<source, input, tree, res, accepted, pc, call_component, call_cnt,
                   fulfillment, gid, entries, frame>>

NextRegistry == ParseDefinitionFile \/ Empty \/ AddDefinition

SpecRegistry == InitRegistry /\ [][NextRegistry]_vars

\* the # multiplier of test_multipliers and test_compile_datatype
SrcColorHash == <<"color", "#">>
SrcDatatypeHash == <<"<", "foo", ">", "#">>
SrcColorHashRange == <<"color", "#", "{", "3", ",", "6", "}">>

HashSources == {SrcColorHash, SrcDatatypeHash, SrcColorHashRange}

HashValues == {CssString("color"), CssString("foo"), CssComma}

SpecHash == InitWith(HashSources, SeqsUpTo(HashValues, MaxCommaLen)) /\ [][Next]_vars

\* the functions of test_function
SrcLengthRange == <<"length", "(", ")", "{", "2", ",", "4", "}">>
SrcColorFunction == <<"color", "(", ")">>
SrcColorSpace == <<"color", "(", " ", ")">>
SrcColorTopRange == <<"color", "(", "top", "?", ")", "{", "2", ",", "4", "}">>
SrcColorTop == <<"color", "(", "top", ")">>

FunctionSources ==
    {SrcLengthRange, SrcColorFunction, SrcColorSpace, SrcColorTopRange, SrcColorTop}

FunctionValues == {CssFunction("color", 0), CssFunction("length", 0), CssString("top")}

SpecFunction ==
    InitWith(FunctionSources, SeqsUpTo(FunctionValues, MaxLen)) /\ [][Next]_vars

\* a direct call of match_component_single(input, component) on a Unit leaf
MaxNumber == 2

UnitBounds == {NoBound} \cup {Bound(n) : n \in 0..MaxNumber}

UnitSuffixes == {<<>>, <<"px">>, <<"em">>, <<"px", "em">>}

UnitComponents == {Unit(from, to, unit) : from, to \in UnitBounds, unit \in UnitSuffixes}

UnitValues ==
    {CssNumber(n) : n \in (0 - MaxNumber)..MaxNumber}
    \cup {CssUnit(n, u) : n \in (0 - MaxNumber)..MaxNumber, u \in {"px", "em", "deg"}}
    \cup {CssString("px"), CssZero}

InitUnit ==
    /\ source = <<>>
    /\ input \in {<<v>> : v \in UnitValues} \cup {<<v, CssString("px")>> : v \in UnitValues}
    /\ tree = NoTree
    /\ res = no_match(<<>>)
    /\ accepted = "none"
    /\ pc = "new"
    /\ call_component \in UnitComponents
    /\ call_cnt = 0
    /\ fulfillment = "none"
    /\ gid = 0
    /\ NoRegistry
    /\ frame = NoFrame

MatchComponentSingle ==
    /\ pc = "new"
    /\ res' = match_component_single(input, call_component)
    /\ pc' = "single"
    /\ UNCHANGED <<source, input, tree, accepted, call_component, call_cnt,
                   fulfillment, gid, registryVars, frame>>

NextUnit == MatchComponentSingle

SpecUnit == InitUnit /\ [][NextUnit]_vars

\* datatypes with a range, as in test_datatype_ranges: "<foo [min,max]>"
MaxRange == 2

DigitLexeme(n) == CHOOSE d \in Digits : digit_value(d) = n

RangeBoundLexemes ==
    {<<>>, <<"inf">>, <<"-", "inf">>}
    \cup {<<DigitLexeme(n)>> : n \in 0..MaxRange}
    \cup {<<"-", DigitLexeme(n)>> : n \in 1..MaxRange}

RangeSources ==
    {<<"<", "foo", " ", "[">> \o min \o <<",">> \o max \o <<"]", ">">> :
         min, max \in RangeBoundLexemes}
    \cup {<<"<", "foo", ">">>, <<"<", "'", "foo", "'", " ", "[", "1", ",", " ", "2", "]", ">">>}

RangeValues == {CssString("foo")}

SpecRange == InitWith(RangeSources, SeqsUpTo(RangeValues, MaxPurityLen)) /\ [][Next]_vars

\* a call of match_component_inner(input, root), one pass of its loop a step
SrcGroupOptStar == <<"[", " ", "foo", "?", " ", "bar", "?", " ", "]", "*">>
SrcGroupOptPlus == <<"[", " ", "foo", "?", " ", "bar", "?", " ", "]", "+">>
SrcGroupOptRange ==
    <<"[", " ", "foo", "?", " ", "bar", "?", " ", "]", "{", "1", ",", "2", "}">>
SrcGroupOpt == <<"[", " ", "foo", "?", " ", "bar", "?", " ", "]">>
SrcGroupOptOpt == <<"[", " ", "foo", "?", " ", "bar", "?", " ", "]", "?">>
SrcStar == <<"foo", "*">>
SrcPlus == <<"foo", "+">>
SrcRange12 == <<"foo", "{", "1", ",", "2", "}">>
SrcRange02 == <<"foo", "{", "0", ",", "2", "}">>
SrcOptional == <<"foo", "?">>
SrcBang == <<"foo", "!">>
SrcGroupRange12 == <<"[", " ", "foo", " ", "|", " ", "bar", " ", "]", "{", "1", ",", "2", "}">>

InnerSources ==
    {SrcGroupOptStar, SrcGroupOptPlus, SrcGroupOptRange, SrcGroupOpt, SrcGroupOptOpt,
     SrcStar, SrcPlus, SrcRange12, SrcRange02, SrcOptional, SrcBang, SrcGroupRange12,
     SrcKeyword, SrcJuxta2}

InnerValues == {CssString("foo"), CssString("bar"), CssString("baz")}

MatchComponentInner ==
    /\ pc = "compiled"
    /\ Len(tree.components) = 1
    /\ call_component' = tree.components[1]
    /\ frame' = Frame(input, <<>>, 0)
    /\ pc' = "inner"
    /\ UNCHANGED <<source, input, tree, res, accepted, call_cnt, fulfillment, gid,
                   registryVars>>

MatchComponentInnerPass ==
    /\ pc = "inner"
    /\ \E pass \in {match_component_inner_pass(
                        input, call_component, frame,
                        IF frame.input = <<>> THEN no_match(<<>>)
                        ELSE match_unit(frame.input, call_component))} :
           /\ pc' = IF pass.returned THEN "returned" ELSE "inner"
           /\ res' = IF pass.returned THEN pass.result ELSE res
           /\ frame' = IF pass.returned THEN frame ELSE pass.frame
    /\ UNCHANGED <<source, input, tree, accepted, call_component, call_cnt,
                   fulfillment, gid, registryVars>>

NextInner == Compile \/ MatchComponentInner \/ MatchComponentInnerPass

SpecInner == InitWith(InnerSources, SeqsUpTo(InnerValues, MaxLen)) /\ [][NextInner]_vars

\* the call is made and every pass of the loop that can be taken is taken:
\* weak fairness of MatchComponentInner and of MatchComponentInnerPass. The
\* pass is enabled exactly when pc = "inner" and then changes pc or the count,
\* so its weak fairness is written with that enabling condition spelled out.
SpecInnerFair ==
    /\ SpecInner
    /\ WF_vars(MatchComponentInner)
    /\ ([]<>(pc # "inner") \/ []<><<MatchComponentInnerPass>>_vars)

TypeOK ==
    /\ pc \in {"new", "compiled", "error", "matched", "rematched", "fulfilled",
              "loaded", "empty", "single",
              "inner", "returned"}
    /\ accepted \in {"none", "true", "false", "panic"}
    /\ tree.ok \in BOOLEAN
    /\ res.matched \in BOOLEAN

-----------------------------------------------------------------------------
(* Properties *)

Root == tree.components[1]

\* the keyword a value stands for ("" when it stands for none of them)
KeywordOf(v) ==
    CASE v = CssString("auto") -> "auto"
      [] v = CssString("AUTO") -> "auto"
      [] v = CssNone -> "none"
      [] v = CssString("block") -> "block"
      [] v = CssString("foo") -> "foo"
      [] v = CssString("FOO") -> "foo"
      [] v = CssString("bar") -> "bar"
      [] v = CssString("baz") -> "baz"
      [] OTHER -> ""

Words(in) == [i \in 1..Len(in) |-> KeywordOf(in[i])]

\* C1: for a tree with a single root, matches(input) is true if and only if
\* match_component on the root and the whole input returns matched = true
\* with an empty remainder; when the root consumes only a proper prefix of
\* the input, matches returns false.
C1_MatchesIffRootConsumesAll ==
    (pc = "matched" /\ Len(tree.components) = 1 /\ ~res.panicked) =>
        /\ accepted \in {"true", "false"}
        /\ (accepted = "true") <=> (res.matched /\ res.remainder = <<>>)
        /\ (res.matched /\ res.remainder # <<>>) => accepted = "false"

C1_Witness ==
    /\ pc = "matched"
    /\ Len(tree.components) = 1
    /\ res.matched
    /\ res.remainder # <<>>
    /\ Len(res.remainder) < Len(input)
    /\ accepted = "false"

\* C2: for every tree returned by a successful compile and every value
\* sequence, matches returns true or false and never panics.
C2_MatchesNeverPanics ==
    pc = "matched" => accepted \in {"true", "false"}


-----------------------------------------------------------------------------
(* The language a grammar denotes, stated independently of the matcher:    *)
(* some assignment of the values to the components satisfies every         *)
(* combinator and multiplier.                                              *)

RECURSIVE InClass(_)
RECURSIVE Denotes(_, _)
RECURSIVE DenotesRepeat(_, _, _)
RECURSIVE DenotesUnit(_, _)
RECURSIVE DenotesSeq(_, _)

AllInClass(components) == \A i \in 1..Len(components) : InClass(components[i])

\* keywords, bracket groups, the four combinators, the multipliers ? * + {m,n}
InClass(component) ==
    /\ component.multiplier.kind \in
           {"Once", "Optional", "ZeroOrMore", "OneOrMore", "Between"}
    /\ IF component.type = "Group"
       THEN AllInClass(component.components)
       ELSE component.type = "GenericKeyword"

MinInt(a, b) == IF a < b THEN a ELSE b
MaxInt(a, b) == IF a > b THEN a ELSE b

RepeatMin(m) ==
    CASE m.kind = "Once" -> 1
      [] m.kind = "Optional" -> 0
      [] m.kind = "ZeroOrMore" -> 0
      [] m.kind = "OneOrMore" -> 1
      [] m.kind = "Between" -> m.min

RepeatMax(m) ==
    CASE m.kind = "Once" -> 1
      [] m.kind = "Optional" -> 1
      [] m.kind = "ZeroOrMore" -> U32_MAX
      [] m.kind = "OneOrMore" -> U32_MAX
      [] m.kind = "Between" -> m.max

\* the components in the order p, one after the other
Reordered(components, p) == [i \in DOMAIN p |-> components[p[i]]]

Injective(p) == \A i, j \in DOMAIN p : p[i] = p[j] => i = j

\* v is the concatenation of one member of each component's language, in order
DenotesSeq(components, v) ==
    IF components = <<>> THEN v = <<>>
    ELSE \E k \in 0..Len(v) :
            /\ Denotes(Head(components), SubSeq(v, 1, k))
            /\ DenotesSeq(Tail(components), SubSeq(v, k + 1, Len(v)))

\* v belongs to the language of the component taken once (its multiplier aside)
DenotesUnit(component, v) ==
    IF component.type # "Group"
    THEN Len(v) = 1 /\ KeywordOf(v[1]) = component.name
    ELSE CASE component.combinator = "Juxtaposition" ->
                  DenotesSeq(component.components, v)
           [] component.combinator = "AllAnyOrder" ->
                  \E p \in Permutations(1..Len(component.components)) :
                      DenotesSeq(Reordered(component.components, p), v)
           [] component.combinator = "AtLeastOneAnyOrder" ->
                  \E k \in 1..Len(component.components) :
                      \E p \in [1..k -> 1..Len(component.components)] :
                          /\ Injective(p)
                          /\ DenotesSeq(Reordered(component.components, p), v)
           [] component.combinator = "ExactlyOne" ->
                  \E i \in 1..Len(component.components) :
                      Denotes(component.components[i], v)

\* v is the concatenation of k members of the component's once-language
DenotesRepeat(component, k, v) ==
    IF k = 0 THEN v = <<>>
    ELSE \E j \in 0..Len(v) :
            /\ DenotesUnit(component, SubSeq(v, 1, j))
            /\ DenotesRepeat(component, k - 1, SubSeq(v, j + 1, Len(v)))

\* v belongs to the language of the component with its multiplier
Denotes(component, v) ==
    \E k \in RepeatMin(component.multiplier) ..
             MinInt(RepeatMax(component.multiplier),
                    MaxInt(RepeatMin(component.multiplier), Len(v))) :
        DenotesRepeat(component, k, v)

\* C3: for every grammar of keywords, groups, the four combinators and the
\* multipliers ? * + {m,n}, every value sequence of the language the grammar
\* denotes is accepted by matches, ambiguous grammars included.
C3_LanguageMembersAccepted ==
    (pc = "matched" /\ Len(tree.components) = 1 /\ InClass(Root)
        /\ Denotes(Root, input))
        => accepted = "true"


-----------------------------------------------------------------------------
(* match_group_exactly_one at the root *)

RootIsExactlyOne ==
    /\ Len(tree.components) = 1
    /\ Root.type = "Group"
    /\ Root.combinator = "ExactlyOne"
    /\ Root.multiplier = Once

\* the result of child i matched on its own against the whole input
ChildResult(i) == match_component(input, Root.components[i])

Succeeding == {i \in 1..Len(Root.components) : ChildResult(i).matched}

\* no succeeding child leaves a shorter remainder than child i, and none
\* declared before i leaves an equally short one
ShortestFirst(i) ==
    /\ i \in Succeeding
    /\ \A j \in Succeeding :
          \/ Len(ChildResult(j).remainder) > Len(ChildResult(i).remainder)
          \/ /\ Len(ChildResult(j).remainder) = Len(ChildResult(i).remainder)
             /\ j >= i

\* C4: match_group_exactly_one matches every child against the same starting
\* input; when no child succeeds the result is no-match, otherwise it is the
\* result of the succeeding child with the shortest remainder, the first
\* declared among equally short ones.
C4_ExactlyOneShortestRemainderFirst ==
    (pc = "matched" /\ RootIsExactlyOne /\ input # <<>> /\ ~res.panicked) =>
        IF Succeeding = {}
        THEN res = no_match(input)
        ELSE \E i \in Succeeding :
                /\ ShortestFirst(i)
                /\ res = MatchResult(ChildResult(i).remainder, TRUE,
                                     ChildResult(i).matched_values)

\* two children succeed and a later one with a shorter remainder is chosen
C4_Witness ==
    /\ pc = "matched"
    /\ RootIsExactlyOne
    /\ {1, 2} \subseteq Succeeding
    /\ Len(ChildResult(2).remainder) < Len(ChildResult(1).remainder)
    /\ res.matched
    /\ res.remainder = ChildResult(2).remainder

-----------------------------------------------------------------------------
(* The group tests *)

KeywordsOfSource ==
    CASE source = SrcJuxta3 -> <<"auto", "none", "block">>
      [] source = SrcJuxta2 -> <<"auto", "none">>
      [] source = SrcAll3 -> <<"auto", "none", "block">>
      [] source = SrcAll2 -> <<"auto", "none">>
      [] source = SrcAny3 -> <<"auto", "none", "block">>
      [] source = SrcAny2 -> <<"auto", "none">>
      [] OTHER -> <<>>

Range(s) == {s[i] : i \in 1..Len(s)}

\* C5: a juxtaposition of n distinct keywords accepts a sequence if and only
\* if it is exactly those keywords in declared order; permutations, subsets,
\* prefixes and longer sequences are rejected.
C5_JuxtapositionExactOrder ==
    pc = "matched" =>
        accepted = (IF Words(input) = KeywordsOfSource THEN "true" ELSE "false")

C5_Witness ==
    /\ pc = "matched"
    /\ source = SrcJuxta3
    /\ Words(input) = <<"auto", "none", "block">>
    /\ accepted = "true"

\* C6: n distinct keywords joined by && accept a sequence if and only if it
\* is a permutation of the n keywords, each exactly once.
C6_AllAnyOrderPermutation ==
    pc = "matched" =>
        accepted = (IF /\ Len(input) = Len(KeywordsOfSource)
                       /\ Range(Words(input)) = Range(KeywordsOfSource)
                    THEN "true" ELSE "false")

C6_Witness ==
    /\ pc = "matched"
    /\ source = SrcAll3
    /\ Words(input) = <<"block", "auto", "none">>
    /\ accepted = "true"

\* C7: n distinct keywords joined by || accept a sequence if and only if it
\* is non-empty and made of distinct keywords of the group, in any order.
C7_AtLeastOneAnyOrderDistinct ==
    pc = "matched" =>
        accepted = (IF /\ input # <<>>
                       /\ Range(Words(input)) \subseteq Range(KeywordsOfSource)
                       /\ Cardinality(Range(Words(input))) = Len(input)
                    THEN "true" ELSE "false")

C7_Witness ==
    /\ pc = "matched"
    /\ source = SrcAny3
    /\ Words(input) = <<"block", "auto">>
    /\ accepted = "true"

\* C8: the tree of "foo | [ foo [ foo | bar ] ]" accepts [foo], [foo, foo]
\* and [foo, bar] and rejects [bar] and [bar, foo].
C8_Matcher3 ==
    (pc = "matched" /\ source = SrcMatcher3) =>
        /\ input \in {<<CssString("foo")>>,
                      <<CssString("foo"), CssString("foo")>>,
                      <<CssString("foo"), CssString("bar")>>}
              => accepted = "true"
        /\ input \in {<<CssString("bar")>>,
                      <<CssString("bar"), CssString("foo")>>}
              => accepted = "false"

C8_Witness ==
    /\ pc = "matched"
    /\ source = SrcMatcher3
    /\ input = <<CssString("foo"), CssString("foo")>>
    /\ accepted = "true"

-----------------------------------------------------------------------------
(* The multiplier tests: "foo bar<M> baz" *)

\* the repetition counts the multiplier of the source allows
RepeatsAllowed(k) ==
    CASE source = SrcMultOptional -> k \in 0..1
      [] source = SrcMultZeroOrMore -> k >= 0
      [] source = SrcMultOneOrMore -> k >= 1
      [] source = SrcMultBetween13 -> k \in 1..3
      [] source = SrcMultBetween02 -> k \in 0..2
      [] source = SrcMultBetween2 -> k = 2
      [] OTHER -> FALSE

\* foo, then bar k times, then baz
FooBarsBaz(k) ==
    <<CssString("foo")>> \o [i \in 1..k |-> CssString("bar")] \o <<CssString("baz")>>

\* C9: "foo bar<M> baz" accepts [foo, bar k times, baz] if and only if k is
\* in the range of M, and nothing else (a value after baz is rejected).
C9_MultiplierRange ==
    pc = "matched" =>
        accepted = (IF \E k \in 0..Len(input) :
                           RepeatsAllowed(k) /\ input = FooBarsBaz(k)
                    THEN "true" ELSE "false")

C9_Witness ==
    /\ pc = "matched"
    /\ source = SrcMultBetween13
    /\ input = FooBarsBaz(3)
    /\ accepted = "true"

-----------------------------------------------------------------------------
(* The comma-separated test: "[foo | bar | baz]#" *)

IsItem(v) == v \in {CssString("foo"), CssString("bar"), CssString("baz")}

\* one or more items with exactly one Comma between successive items
CommaSeparatedItems(in) ==
    /\ Len(in) % 2 = 1
    /\ \A i \in 1..Len(in) : IF i % 2 = 1 THEN IsItem(in[i]) ELSE in[i] = CssComma

EndsInComma(in) == in # <<>> /\ in[Len(in)] = CssComma

TwoConsecutiveCommas(in) ==
    \E i \in 1..(Len(in) - 1) : in[i] = CssComma /\ in[i + 1] = CssComma

\* C10: the tree of "[foo | bar | baz]#" accepts every list of one or more
\* items separated by exactly one Comma, and rejects a sequence ending in a
\* Comma and a sequence with two consecutive Commas.
C10_CommaSeparatedList ==
    (pc = "matched" /\ source = SrcCommaGroup) =>
        /\ CommaSeparatedItems(input) => accepted = "true"
        /\ EndsInComma(input) => accepted = "false"
        /\ TwoConsecutiveCommas(input) => accepted = "false"

C10_Witness ==
    /\ pc = "matched"
    /\ source = SrcCommaGroup
    /\ input = <<CssString("foo"), CssComma, CssString("bar"), CssComma,
                 CssString("baz")>>
    /\ accepted = "true"

-----------------------------------------------------------------------------
(* Fulfillment *)

\* the table of the fulfillment states, read top to bottom
FulfillmentTable(m, k) ==
    CASE m.kind = "ZeroOrMore" -> "FulfilledButMoreAllowed"
      [] m.kind = "OneOrMore" ->
            (IF k = 0 THEN "NotYetFulfilled" ELSE "FulfilledButMoreAllowed")
      [] m.kind = "Optional" ->
            (IF k = 0 THEN "FulfilledButMoreAllowed"
             ELSE IF k = 1 THEN "Fulfilled" ELSE "NotFulfilled")
      [] m.kind = "Between" ->
            (IF k < m.min THEN "NotYetFulfilled"
             ELSE IF k <= m.max THEN "FulfilledButMoreAllowed" ELSE "NotFulfilled")
      [] m.kind \in {"Once", "AtLeastOneValue", "CommaSeparatedRepeat"} ->
            (IF k = 0 THEN "NotYetFulfilled"
             ELSE IF k = 1 THEN "Fulfilled" ELSE "NotFulfilled")

\* C11: multiplier_fulfilled(component, cnt) is the table of Once, ZeroOrMore,
\* OneOrMore, Optional and Between(min,max); a component whose multiplier is
\* AtLeastOneValue or CommaSeparatedRepeat is classified as Once.
C11_FulfillmentTable ==
    pc = "fulfilled" => fulfillment = FulfillmentTable(call_component.multiplier, call_cnt)

C11_Witness ==
    /\ pc = "fulfilled"
    /\ call_component.multiplier = Between(1, 3)
    /\ call_cnt = 3
    /\ fulfillment = "FulfilledButMoreAllowed"

-----------------------------------------------------------------------------
(* Operator precedence of the compiler *)

Keyword(name) == Leaf("GenericKeyword", name)

\* the lexemes of src outside every bracket pair
TopLevelLexemes(src) ==
    LET RECURSIVE scan(_, _)
        scan(i, depth) ==
            IF i > Len(src) THEN {}
            ELSE IF src[i] = "[" THEN scan(i + 1, depth + 1)
            ELSE IF src[i] = "]" THEN scan(i + 1, depth - 1)
            ELSE IF depth = 0 THEN {src[i]} \cup scan(i + 1, depth)
            ELSE scan(i + 1, depth)
    IN  scan(1, 0)

\* the combinator of the loosest-binding operator among the lexemes
LoosestCombinator(lexemes) ==
    IF "|" \in lexemes THEN "ExactlyOne"
    ELSE IF "||" \in lexemes THEN "AtLeastOneAnyOrder"
    ELSE IF "&&" \in lexemes THEN "AllAnyOrder"
    ELSE "Juxtaposition"

C13_SinglebarBindsTightest ==
    (pc # "new" /\ tree.ok) =>
        /\ source = SrcLeftOrRightAndTop =>
              tree.components =
                  <<Group(<<Group(<<Keyword("left"), Keyword("right")>>,
                                  "ExactlyOne"),
                            Keyword("top")>>,
                          "AllAnyOrder")>>
        /\ source = SrcLeftAndRightOrTop =>
              tree.components =
                  <<Group(<<Keyword("left"),
                            Group(<<Keyword("right"), Keyword("top")>>,
                                  "ExactlyOne")>>,
                          "AllAnyOrder")>>
        /\ source = SrcLeftRightOrTopBottom =>
              tree.components =
                  <<Group(<<Keyword("left"),
                            Group(<<Keyword("right"), Keyword("top")>>,
                                  "ExactlyOne"),
                            Keyword("bottom")>>,
                          "Juxtaposition")>>

-----------------------------------------------------------------------------
(* CssSyntax::compile *)

OnlyWhitespace(rest) == \A i \in 1..Len(rest) : rest[i] = " "

\* the parser succeeded on the source and left nothing but whitespace
ParsedWholeSource(p) == p.ok /\ OnlyWhitespace(p.rest)

\* C14: compile returns Ok with a tree of zero components for the empty
\* source; for a non-empty source it returns Ok, with exactly one root, only
\* if the parser consumed the source up to trailing whitespace, and an error
\* whenever text is left over or the parser fails.
C14_CompileWholeSourceOrError ==
    pc # "new" =>
        IF source = <<>>
        THEN tree.ok /\ tree.components = <<>>
        ELSE /\ tree.ok => Len(tree.components) = 1
             /\ tree.ok <=> ParsedWholeSource(parse(source))

\* the parser succeeded, text is left over, compile returned the error
C14_Witness ==
    /\ pc = "error"
    /\ source = SrcDangling
    /\ ~tree.ok

-----------------------------------------------------------------------------
(* Purity of the matcher *)

CompiledEntries == {i \in DOMAIN entries : compile(entries[i].syntax).ok}

\* the last compiled entry of a name
LastCompiled(name) ==
    CHOOSE i \in CompiledEntries :
        /\ entries[i].name = name
        /\ \A j \in CompiledEntries : entries[j].name = name => j <= i

\* C16: after the registry is loaded, a property whose syntax string fails to
\* compile is skipped: find of a name returns Some exactly when the table has
\* an entry of that name whose syntax compiles, len counts those names only,
\* and every such name holds its own compiled tree.
C16_FailedPropertySkipped ==
    pc = "loaded" =>
        /\ \A name \in PropertyNames :
               find(definitions, name).some
                   <=> \E i \in CompiledEntries : entries[i].name = name
        /\ len(definitions) = Cardinality({entries[i].name : i \in CompiledEntries})
        /\ \A name \in {entries[i].name : i \in CompiledEntries} :
               /\ find(definitions, name).some
               /\ find(definitions, name).value.syntax
                      = compile(entries[LastCompiled(name)].syntax).components

\* the names handed to add_definition so far
AddedNames == {added[i].name : i \in DOMAIN added}

\* the definition most recently added under a name
LastAdded(name) ==
    added[CHOOSE i \in DOMAIN added :
              /\ added[i].name = name
              /\ \A j \in DOMAIN added : added[j].name = name => j <= i].definition

\* C17: for a registry that starts from empty() and any sequence of
\* add_definition calls, len is the number of distinct names added, is_empty
\* holds iff no name was added, find of an added name is Some of the definition
\* most recently added under it, and find of a name never added is None.
C17_RegistryTracksAdds ==
    pc = "empty" =>
        /\ len(definitions) = Cardinality(AddedNames)
        /\ is_empty(definitions) <=> added = <<>>
        /\ \A name \in PropertyNames \cup {"border-top-style"} :
               find(definitions, name)
                   = IF name \in AddedNames THEN Some(LastAdded(name)) ELSE None

\* a name was added twice with different definitions, another name in between
C17_Witness ==
    /\ pc = "empty"
    /\ Len(added) = 3
    /\ added[1].name = added[3].name
    /\ added[1].definition # added[3].definition
    /\ added[2].name # added[1].name
    /\ len(definitions) = 2

\* the component a source names before its # multiplier
HashComponent ==
    IF source[1] = "<" THEN Definition(source[2], FALSE, RangeType_empty)
    ELSE Leaf("GenericKeyword", source[1])

\* the multiplier the source asks for: (1, 1) for a bare #, the range of #{a,b}
HashMultiplier ==
    IF source[Len(source)] = "#" THEN CommaSeparatedRepeat(1, 1)
    ELSE CommaSeparatedRepeat(digit_value(source[Len(source) - 3]),
                              digit_value(source[Len(source) - 1]))

\* C18: a component followed by a bare # compiles to that component with the
\* multiplier CommaSeparatedRepeat(1, 1), and "color#{3,6}" compiles to
\* CommaSeparatedRepeat(3, 6).
C18_BareHashIsOneToOne ==
    pc # "new" =>
        /\ tree.ok
        /\ Len(tree.components) = 1
        /\ Root = update_multiplier(HashComponent, HashMultiplier)

\* the position of the first lexeme tok of the source
RECURSIVE IndexOf(_, _)
IndexOf(tok, i) == IF source[i] = tok THEN i ELSE IndexOf(tok, i + 1)

\* the lexemes between the parentheses of a function source, spaces left out
ArgumentLexemes ==
    SelectSeq(SubSeq(source, IndexOf("(", 1) + 1, IndexOf(")", 1) - 1),
              LAMBDA tok : tok # " ")

\* the argument components the source writes
WrittenArguments ==
    IF ArgumentLexemes = <<>> THEN <<>>
    ELSE IF ArgumentLexemes = <<"top", "?">>
    THEN <<update_multiplier(Leaf("GenericKeyword", "top"), Optional)>>
    ELSE <<Leaf("GenericKeyword", ArgumentLexemes[1])>>

\* the multiplier written after the closing parenthesis
WrittenFunctionMultiplier ==
    IF source[Len(source)] = "}"
    THEN Between(digit_value(source[Len(source) - 3]),
                 digit_value(source[Len(source) - 1]))
    ELSE Once

\* C19: a function primitive name(args) compiles to a Function component whose
\* arguments field holds the parsed argument components: "color(top?){2,4}"
\* gives arguments [GenericKeyword top, Optional] and Between(2, 4), and an
\* empty argument list gives arguments = [].
C19_FunctionArgumentsRecorded ==
    pc # "new" =>
        /\ tree.ok
        /\ Len(tree.components) = 1
        /\ Root = update_multiplier(Function(source[1], WrittenArguments),
                                    WrittenFunctionMultiplier)

\* from <= n <= to, a missing bound being unbounded
InUnitRange(n, component) ==
    /\ component.from.some => component.from.value <= n
    /\ component.to.some => n <= component.to.value

\* C20: the leaf matcher of a Unit(from, to, suffixes) component matches
\* Number(0.0) always, and matches Unit(n, u) if and only if from <= n <= to and
\* the suffix list is empty or holds u.
C20_UnitLeafMatcher ==
    pc = "single" =>
        (res.matched
            <=> \/ input[1] = CssNumber(0)
                \/ /\ input[1].t = "Unit"
                   /\ InUnitRange(input[1].n, call_component)
                   /\ \/ call_component.unit = <<>>
                      \/ input[1].s \in Range(call_component.unit))

\* C21: the range held by a Definition component of a compiled tree has
\* min <= max whenever both bounds are finite integers; a source "<name [a,b]>"
\* with a > b gives no compiled tree carrying the range (a, b).
C21_RangeMinAtMostMax ==
    (pc # "new" /\ tree.ok /\ Len(tree.components) = 1 /\ Root.type = "Definition") =>
        ((Root.range.min.kind = "FiniteI64" /\ Root.range.max.kind = "FiniteI64")
             => Root.range.min.value <= Root.range.max.value)

\* C22: every call of the matcher terminates: the multiplier loop of
\* match_component_inner, once entered, returns after finitely many passes,
\* also for a group with multiplier *, + or {min,max} whose children can all
\* match without consuming a value.
C22_InnerLoopTerminates == (pc = "inner") ~> (pc = "returned")

\* C23: when a successful unit match raises the count of a Between(min, max)
\* component above max, match_component_inner returns no-match with empty
\* matched_values and the original input as remainder: the values of the
\* earlier repetitions are not reported and the matcher does not stop at max.
C23_OverMaxIsNoMatchOfRawInput ==
    (/\ pc = "returned"
     /\ call_component.multiplier.kind = "Between"
     /\ call_component.multiplier.min <= call_component.multiplier.max
     /\ frame.input # <<>>
     /\ frame.multiplier_count = call_component.multiplier.max
     /\ match_unit(frame.input, call_component).matched)
        => res = no_match(input)

\* "foo{1,2}" on [foo, foo, foo]: two repetitions were matched, the third
\* passes max
C23_Witness ==
    /\ pc = "returned"
    /\ source = SrcRange12
    /\ input = <<CssString("foo"), CssString("foo"), CssString("foo")>>
    /\ frame = Frame(<<CssString("foo")>>, <<CssString("foo"), CssString("foo")>>, 2)
    /\ res = no_match(input)

\* C24: match_component_inner called with an empty input returns matched with
\* empty matched_values and empty remainder if and only if the primary
\* multiplier of the component is Optional, ZeroOrMore or Between with min 0,
\* and no-match for every other multiplier, also for a group whose children
\* could all match zero values.
C24_EmptyInputNeedsZeroTolerance ==
    (pc = "returned" /\ input = <<>>) =>
        res = IF \/ call_component.multiplier.kind \in {"Optional", "ZeroOrMore"}
                 \/ /\ call_component.multiplier.kind = "Between"
                    /\ call_component.multiplier.min = 0
              THEN MatchResult(<<>>, TRUE, <<>>)
              ELSE no_match(<<>>)

\* the group "[ foo? bar? ]" on the empty input
C24_Witness ==
    /\ pc = "returned"
    /\ input = <<>>
    /\ source = SrcGroupOpt
    /\ is_group(call_component)
    /\ res = no_match(<<>>)

\* the values a comma-separated source takes as an item
IsItemOf(src, v) == IF src = SrcCommaGroup THEN IsItem(v) ELSE v = CssString("foo")

\* items of the source with one Comma between them, and a Comma after the last
ItemsThenComma(in) ==
    /\ in # <<>>
    /\ Len(in) % 2 = 0
    /\ \A i \in 1..Len(in) :
           IF i % 2 = 1 THEN IsItemOf(source, in[i]) ELSE in[i] = CssComma

\* C25: for a component with multiplier CommaSeparatedRepeat(min, max),
\* whenever match_component returns matched the number of items matched by
\* the inner matcher lies in min..max, and an input whose last value is a Comma
\* directly after a matched item is never matched.
C25_CommaRepeatCountInRange ==
    (pc = "matched" /\ Root.multiplier.kind = "CommaSeparatedRepeat") =>
        /\ res.matched =>
               /\ Root.multiplier.min <= Len(res.matched_values)
               /\ Len(res.matched_values) <= Root.multiplier.max
               /\ \A i \in DOMAIN res.matched_values :
                      IsItemOf(source, res.matched_values[i])
        /\ ItemsThenComma(input) => ~res.matched

\* "foo#{1,2}" on two items
C25_Witness ==
    /\ pc = "matched"
    /\ source = SrcCommaRange12
    /\ input = <<CssString("foo"), CssComma, CssString("foo")>>
    /\ res.matched
    /\ Len(res.matched_values) = Root.multiplier.max

IsSuffix(s, t) == Len(s) <= Len(t) /\ s = SubSeq(t, Len(t) - Len(s) + 1, Len(t))

\* C26: the remainder of the MatchResult match_component returns, matched or
\* not, is a suffix of the input: values are only removed from the front.
C26_RemainderIsSuffix ==
    (pc = "matched" /\ ~res.panicked) => IsSuffix(res.remainder, input)

\* a match that consumed some values and left others
C26_Witness ==
    /\ pc = "matched"
    /\ res.matched
    /\ res.remainder # <<>>
    /\ Len(res.remainder) < Len(input)
    /\ res.remainder # SubSeq(input, 1, Len(res.remainder))
    /\ IsSuffix(res.remainder, input)

\* a CommaSeparatedRepeat multiplier somewhere in the subtree of a component
RECURSIVE HasCommaSeparatedRepeat(_)
HasCommaSeparatedRepeat(component) ==
    \/ component.multiplier.kind = "CommaSeparatedRepeat"
    \/ \E i \in DOMAIN component.components :
           HasCommaSeparatedRepeat(component.components[i])

\* C27: for a component with no CommaSeparatedRepeat in its subtree, a matched
\* result of match_component has matched_values followed by remainder equal to
\* the input: matched_values holds the values of all repetitions.
C27_MatchedValuesThenRemainderIsInput ==
    (/\ pc = "matched"
     /\ ~res.panicked
     /\ ~HasCommaSeparatedRepeat(Root)
     /\ res.matched)
        => res.matched_values \o res.remainder = input

\* a comma-separated repeat followed by a juxtaposed keyword
SrcCommaThenBar == <<"foo", "#", " ", "bar">>
SrcCommaRangeThenBar == <<"foo", "#", "{", "1", ",", "2", "}", " ", "bar">>

SpecCommaThen ==
    InitWith({SrcCommaThenBar, SrcCommaRangeThenBar},
             SeqsUpTo(CommaValues, MaxCommaLen))
    /\ [][Next]_vars

\* in is foo (Comma foo)* bar
FooListThenBar(in) ==
    /\ Len(in) >= 2
    /\ Len(in) % 2 = 0
    /\ in[Len(in)] = CssString("bar")
    /\ \A i \in 1..(Len(in) - 1) :
           in[i] = IF i % 2 = 1 THEN CssString("foo") ELSE CssComma

\* C28: a comma-separated repeat consumes a Comma only together with the item
\* after it, so "foo# bar" accepts only foo (Comma foo)* bar: a bar that
\* follows a Comma is never matched by the juxtaposed component.
C28_CommaConsumedOnlyBeforeItem ==
    (pc = "matched" /\ accepted = "true") => FooListThenBar(input)

\* grammars of keywords, groups, the four combinators and ? * + {m,n}
MaxSoundLen == 4

SrcAnyRange12 ==
    <<"[", " ", "foo", " ", "||", " ", "bar", " ", "]", "{", "1", ",", "2", "}">>
SrcAllStar == <<"[", " ", "foo", " ", "&&", " ", "bar", " ", "]", "*">>
SrcOptAndBar == <<"foo", "?", " ", "&&", " ", "bar">>
SrcStarAnyBar == <<"foo", "*", " ", "||", " ", "bar">>
SrcOrPlusThenOpt ==
    <<"[", " ", "foo", " ", "|", " ", "bar", " ", "]", "+", " ", "baz", "?">>
SrcJuxtaOptTwice == <<"[", " ", "foo", " ", "bar", "?", " ", "]", "{", "2", "}">>
SrcPairRangeOrFoo ==
    <<"[", " ", "foo", " ", "bar", " ", "]", "{", "1", ",", "2", "}", " ", "|",
      " ", "foo">>

SoundSources ==
    {SrcMatcher3, SrcPlusOrPair, SrcPairOrPlus, SrcShortOrLong, SrcLongOrShort,
     SrcOptOrBar, SrcStarThenFoo, SrcGroupThenBar, SrcOptOpt, SrcAnyOrder,
     SrcAllOrder, SrcGroupOptRange, SrcGroupOpt, SrcGroupOptOpt, SrcStar, SrcPlus,
     SrcRange12, SrcRange02, SrcOptional, SrcGroupRange12, SrcKeyword,
     SrcAnyRange12, SrcAllStar, SrcOptAndBar, SrcStarAnyBar, SrcOrPlusThenOpt,
     SrcJuxtaOptTwice, SrcPairRangeOrFoo}
    \union MultiplierSources

SoundValues == {CssString("foo"), CssString("bar"), CssString("baz"), CssString("FOO")}

SpecSound ==
    InitWith(SoundSources, SeqsUpTo(SoundValues, MaxSoundLen)) /\ [][Next]_vars

\* C29: for a grammar of keywords, bracket groups, the four combinators and
\* the multipliers ? * + {m,n}, whenever matches returns true the input
\* belongs to the language the grammar denotes.
C29_AcceptedIsInLanguage ==
    (pc = "matched" /\ Len(tree.components) = 1 /\ InClass(Root)
        /\ accepted = "true")
        => Denotes(Root, input)

\* a repeated group accepted on an input of three or more values
C29_Witness ==
    /\ pc = "matched"
    /\ Len(tree.components) = 1
    /\ InClass(Root)
    /\ Root.type = "Group"
    /\ Root.multiplier.kind = "Between"
    /\ Len(input) >= 3
    /\ accepted = "true"
    /\ Denotes(Root, input)

\* a bracket group whose only content is foo with the multiplier m1, followed
\* by the multiplier m2
WrittenMultipliers == {<<>>, <<"?">>, <<"*">>, <<"+">>, <<"{", "1", ",", "2", "}">>}

GroupSource(m1, m2) == <<"[", " ", "foo">> \o m1 \o <<" ", "]">> \o m2

GroupSources == {GroupSource(m1, m2) : m1, m2 \in WrittenMultipliers}

GroupValues == {CssString("foo"), CssString("bar")}

SpecGroup == InitWith(GroupSources, SeqsUpTo(GroupValues, MaxLen)) /\ [][Next]_vars

\* the multipliers written in a source of GroupSources
WrittenPair(src) ==
    CHOOSE m \in WrittenMultipliers \X WrittenMultipliers : GroupSource(m[1], m[2]) = src

\* the tree the source is written as: a group of one keyword, each with the
\* multiplier written after it
WrittenGroup(src) ==
    [Group(<<[Leaf("GenericKeyword", "foo") EXCEPT
                  !.multiplier = parse_multipliers(WrittenPair(src)[1]).val]>>,
           "Juxtaposition")
        EXCEPT !.multiplier = parse_multipliers(WrittenPair(src)[2]).val]

\* C30: compiling "[ X m1 ] m2" yields a tree in which X repeats according to
\* m1 and m2 applies to the group as a whole: the compiled tree denotes the
\* same language as the group written in the source.
C30_GroupKeepsInnerMultiplier ==
    (pc # "new" /\ tree.ok /\ Len(tree.components) = 1)
        => (Denotes(Root, input) <=> Denotes(WrittenGroup(source), input))

=============================================================================
